---- MODULE Spec2Model ----
(***************************************************************************)
(* Model of the consensus core of realize:                                 *)
(*   - the job scheduler of consensus/churten.rs (Churten, background_job, *)
(*     run_job), one scheduler run;                                        *)
(*   - the per-file sync protocol of consensus/movedirs.rs (move_file).    *)
(* The two parts have their own variables, actions and specifications.     *)
(***************************************************************************)
EXTENDS Integers, Sequences, FiniteSets, TLC

(***************************************************************************)
(* Bounds of the model.                                                    *)
(***************************************************************************)
\* Number of jobs of the storage job stream in the runs that record the
\* whole history of every job (Spec, SpecSub).
NumJobs == 2
\* Number of jobs of the stream in the runs that exercise the parallelism
\* limit (SpecPar); these keep the notifications and the state of Storage
\* and drop the rest of the history of a job.
ParJobs == 5
\* Progress notifications a handler publishes at most, per job.
MaxUpdates == 1

\* churten.rs:142
PARALLEL_JOB_COUNT == 4

\* churten.rs:20, scaled down: the capacity of the broadcast channel.
BROADCAST_CHANNEL_CAPACITY == 2

Jobs == 1..(IF ParJobs > NumJobs THEN ParJobs ELSE NumJobs)

\* What a handler returns: anyhow::Result<JobStatus>.
ErrMsg == "Simulated job failure"
HandlerResults == {"Done", "Abandoned", "Err"}

VARIABLES
    \* ---- Churten (churten.rs) ----
    task,             \* Churten.task: "none" | "some"
    pc,               \* position of the worker spawned by start()
    sdPolled,         \* this poll of select! polled shutdown.cancelled() first
    cancelled,        \* state of the CancellationToken of the run
    streamLen,        \* number of jobs the storage job stream will yield
    nextJob,          \* next JobId the job stream yields
    streamDone,       \* the (fused) job stream returned None
    st,               \* per job: where it is in background_job
    result,           \* per job: what its handler returned
    notes,            \* per job: the notifications broadcast, in order
    progress,         \* per job: the progress of its Finish notification
    reports,          \* per job: the statuses passed to storage.job_finished
    pendingJobs,      \* Storage: jobs job_for_path still returns
    cur,              \* job whose result the loop body is processing
    inflightAtCancel, \* jobs that were running when the token was cancelled
    rcvd,             \* jobs whose Finish a subscriber has received
    rec,              \* the run records the history of every job
    posAtCancel,      \* where the worker was when the token was cancelled,
                      \* in the runs that record it
    bus,              \* the notifications sent on tx, in order, in the runs
                      \* that have a receiver of the channel in the model
    busOn,            \* the run has such a receiver
    \* ---- move_file (movedirs.rs) ----
    mSrc,             \* content of the source file
    mSrcSize,         \* src_file.size, as listed
    mSrcExists,       \* the source file has not been deleted
    mDst,             \* content of the destination file
    mDstSize,         \* dst_file.size as listed, 0 when dst_file is None
    mFinished,        \* dst.finish has succeeded
    mpc,              \* position in move_file
    pass,             \* number of the verify pass (1 or 2)
    cpc,              \* position in copy_file_range and the truncate
    hpc,              \* state of the hash_file of the source
    copyTodo,         \* chunks copy_file_range has still to copy
    semHeld,          \* the permit of copy_sem is held
    srcHash,          \* src_hash
    rsyncTodo,        \* chunks rsync_file_range has still to process
    fallback,         \* fallback_ranges
    mCalls,           \* the calls made on src and dst, in order
    mEvents,          \* the ProgressEvents sent, in order
    mResult,          \* what move_file returned
    \* ---- calls of Churten::start ----
    lastCall,         \* what the last call of start() did
    runningBefore,    \* is_running() when start() was last called
    \* ---- the tracker task of Churten::with_handler ----
    tcur,             \* number of notifications the tracker's receiver is past
    tpc,              \* "recv" while the task loops, "ended" once it returned
    tracked,          \* per job: the last notification the tracker applied
    \* ---- the progress reporter run_job builds for one job ----
    pidx,             \* the index the next published notification carries
    plast,            \* current_bytes of the last published byte count, -1 if none
    pthr,             \* the effective byte threshold
    pbus,             \* the notifications the reporter has published, in order
    prcur,            \* number of published notifications a subscriber is past
    pseen,            \* the indexes the subscriber received, in order
    pcall,            \* the last update(): <<current, total, last before, published>>
    \* ---- the files one move_dirs call moves in parallel ----
    fpc,              \* per file: position in move_dirs and move_file
    fpass,            \* per file: 1 in the copy-missing phase, 2 in the fallback
    fchunks,          \* per file: chunks copy_file_range has still to copy
    copySem,          \* the permits copy_sem has left
    ferr,             \* per file: the error move_file returned, "none" if none
    dresult,          \* what move_dirs returned, <<>> before it returns
    flast,            \* per file: the last ProgressEvent sent for the file
    \* ---- the arguments of the call of move_file ----
    mDst0,            \* content of the destination when move_file was called
    \* ---- one path of an arena: its file, its index entry, a Reader ----
    ifile,            \* the file: <<>> if missing, else <<content, mtime>>
    ientry,           \* the index entry: <<>> if none, else <<size, mtime, hash>>
    ropen,            \* Reader::open has returned a Reader
    rlast,            \* the last call on the store since the file and the
                      \* index last changed: its inputs and its result
    \* ---- one call of hash_file ----
    hcontent,         \* content of the file the peer hashes
    hsize,            \* file_size
    hchunk,           \* chunk_size
    hnext,            \* number of hash calls the stream has issued
    hflight,          \* the chunks whose hash call is in flight
    hres,             \* results, in the order the calls completed
    hret,             \* what hash_file returned, <<>> before it returns
    \* ---- one call of move_dirs: the listings and the files to sync ----
    knum,             \* number of arenas passed to move_dirs
    kpaths,           \* the paths the peers may list
    klist,            \* per arena: <<>>, or what src.list and dst.list returned
    kcol,             \* per arena: <<>>, or what collect_files_to_sync returned
    kpc,              \* position in move_dirs
    ksync,            \* files_to_sync
    kmoved,           \* number of files of files_to_sync whose move has begun
    kcalls,           \* the files on which a call was made: <<peer, arena, path>>
    kevents,          \* the MovingDir and MovingFile events sent, in order
    kret,             \* what move_dirs returned, <<>> before it returns
    \* ---- the workers one Churten spawns over its start() and shutdown() ----
    wtask,            \* Churten.task: 0 for None, else the worker it holds
    wst,              \* per worker: "unspawned" | "alive" | "done"
    wtok,             \* per worker: its CancellationToken is cancelled
    wfly              \* per worker: the futures its buffer_unordered holds

cvars == <<task, pc, sdPolled, cancelled, streamLen, nextJob, streamDone, st,
           result, notes, progress, reports, pendingJobs, cur,
           inflightAtCancel, rcvd, rec, posAtCancel, bus, busOn>>

mvars == <<mSrc, mSrcSize, mSrcExists, mDst, mDstSize, mFinished, mpc, pass,
           cpc, hpc, copyTodo, semHeld, srcHash, rsyncTodo, fallback, mCalls,
           mEvents, mResult>>

lvars == <<lastCall, runningBefore>>

tvars == <<tcur, tpc, tracked>>

pvars == <<pidx, plast, pthr, pbus, prcur, pseen, pcall>>

dvars == <<fpc, fpass, fchunks, copySem, ferr, dresult, flast>>

avars == <<mDst0>>

ivars == <<ifile, ientry, ropen, rlast>>

hvars == <<hcontent, hsize, hchunk, hnext, hflight, hres, hret>>

kvars == <<knum, kpaths, klist, kcol, kpc, ksync, kmoved, kcalls, kevents, kret>>

wvars == <<wtask, wst, wtok, wfly>>

xvars == <<lvars, tvars, pvars, dvars, avars, ivars, hvars, kvars, wvars>>

vars == <<cvars, mvars, xvars>>

(***************************************************************************)
(* Helpers                                                                 *)
(***************************************************************************)
Count(s, k) == Cardinality({i \in 1..Len(s) : s[i] = k})

Has(s, k) == \E i \in 1..Len(s) : s[i] = k

\* The futures held by buffer_unordered: pushed and not yet completed.
\* tx.send(n): the channel with n appended.
BusSend(n) == IF busOn THEN Append(bus, n) ELSE bus

InProgress == {j \in Jobs : st[j] \in {"queued", "running"}}

(***************************************************************************)
(* churten.rs:178-188: the progress of the Finish notification.            *)
(***************************************************************************)
FinishProgressFailedAlways(res, isCancelled) ==
    CASE res = "Done" -> <<"Done">>
      [] res = "Abandoned" -> <<"Abandoned">>
      [] OTHER -> <<"Failed", ErrMsg>>

FinishProgress(res, isCancelled) ==
    CASE res = "Done" -> <<"Done">>
      [] res = "Abandoned" -> <<"Abandoned">>
      [] OTHER -> IF isCancelled THEN <<"Cancelled">> ELSE <<"Failed", ErrMsg>>

(***************************************************************************)
(* Storage::job_finished, as the specification describes it: Done and      *)
(* Abandoned retire the job, an error status retains it; when the call     *)
(* itself fails nothing changes.                                           *)
(***************************************************************************)
StorageJobFinished(pend, j, status, callOk) ==
    IF callOk /\ status \in {"Done", "Abandoned"} THEN pend \ {j} ELSE pend

(***************************************************************************)
(* Cancelling the token: CancellationToken::cancel is idempotent.          *)
(***************************************************************************)
CancelToken ==
    /\ cancelled' = TRUE
    /\ inflightAtCancel' =
          IF cancelled \/ ~rec THEN inflightAtCancel
          ELSE {j \in Jobs : st[j] = "running"}
    /\ posAtCancel' = IF cancelled \/ posAtCancel # <<>> THEN posAtCancel
                      ELSE <<pc, cur>>

(***************************************************************************)
(* Churten::start (churten.rs:114-128). One scheduler run is modelled: the *)
(* worker is spawned once.                                                 *)
(***************************************************************************)
Start ==
    /\ task = "none"
    /\ pc = "unspawned"
    /\ task' = "some"
    /\ pc' = "select"
    /\ UNCHANGED mvars
    /\ UNCHANGED xvars
    /\ UNCHANGED <<sdPolled, cancelled, streamLen, nextJob, streamDone, st,
                   result, notes, progress, reports, pendingJobs, cur,
                   inflightAtCancel, rcvd, rec,
                   posAtCancel, bus, busOn>>

(***************************************************************************)
(* Churten::shutdown (churten.rs:133-138).                                 *)
(***************************************************************************)
Shutdown ==
    /\ task = "some"
    /\ task' = "none"
    /\ CancelToken
    /\ UNCHANGED mvars
    /\ UNCHANGED xvars
    /\ UNCHANGED <<pc, sdPolled, streamLen, nextJob, streamDone, st, result,
                   notes, progress, reports, pendingJobs, cur, rcvd, rec,
                   bus, busOn>>

(***************************************************************************)
(* background_job, churten.rs:169-174: one poll of tokio::select!, which   *)
(* polls its two branches in a random order.                               *)
(***************************************************************************)
BeginPoll ==
    /\ pc = "select"
    /\ \E shutdownFirst \in BOOLEAN :
          IF shutdownFirst /\ cancelled
          THEN /\ pc' = "done"
               /\ UNCHANGED sdPolled
          ELSE /\ pc' = "fill"
               /\ sdPolled' = shutdownFirst
    /\ UNCHANGED mvars
    /\ UNCHANGED xvars
    /\ UNCHANGED <<task, cancelled, streamLen, nextJob, streamDone, st, result,
                   notes, progress, reports, pendingJobs, cur,
                   inflightAtCancel, rcvd, rec,
                   posAtCancel, bus, busOn>>

(***************************************************************************)
(* buffer_unordered(PARALLEL_JOB_COUNT) pulls the next job of the stream   *)
(* while it holds fewer than PARALLEL_JOB_COUNT futures; the first map     *)
(* broadcasts New (churten.rs:156-168).                                    *)
(***************************************************************************)
PullUnbounded ==
    /\ pc = "fill"
    /\ ~streamDone
    /\ nextJob <= streamLen
    /\ st' = [st EXCEPT ![nextJob] = "queued"]
    /\ notes' = [notes EXCEPT ![nextJob] = Append(@, "New")]
    /\ nextJob' = nextJob + 1
    /\ bus' = BusSend(<<nextJob, "New">>)
    /\ UNCHANGED mvars
    /\ UNCHANGED xvars
    /\ UNCHANGED <<task, pc, sdPolled, cancelled, streamLen, streamDone,
                   result, progress, reports, pendingJobs, cur,
                   inflightAtCancel, rcvd, rec,
                   posAtCancel, busOn>>

Pull ==
    /\ pc = "fill"
    /\ ~streamDone
    /\ Cardinality(InProgress) < PARALLEL_JOB_COUNT
    /\ nextJob <= streamLen
    /\ st' = [st EXCEPT ![nextJob] = "queued"]
    /\ notes' = [notes EXCEPT ![nextJob] = Append(@, "New")]
    /\ nextJob' = nextJob + 1
    /\ bus' = BusSend(<<nextJob, "New">>)
    /\ UNCHANGED mvars
    /\ UNCHANGED xvars
    /\ UNCHANGED <<task, pc, sdPolled, cancelled, streamLen, streamDone,
                   result, progress, reports, pendingJobs, cur,
                   inflightAtCancel, rcvd, rec,
                   posAtCancel, busOn>>

\* The job stream ends.
StreamEnd ==
    /\ pc = "fill"
    /\ ~streamDone
    /\ Cardinality(InProgress) < PARALLEL_JOB_COUNT
    /\ nextJob > streamLen
    /\ streamDone' = TRUE
    /\ pc' = "drive"
    /\ UNCHANGED mvars
    /\ UNCHANGED xvars
    /\ UNCHANGED <<task, sdPolled, cancelled, streamLen, nextJob, st, result,
                   notes, progress, reports, pendingJobs, cur,
                   inflightAtCancel, rcvd, rec,
                   posAtCancel, bus, busOn>>

\* The buffer is full, or the job stream is pending or ended.
FillDone ==
    /\ pc = "fill"
    /\ pc' = "drive"
    /\ UNCHANGED mvars
    /\ UNCHANGED xvars
    /\ UNCHANGED <<task, sdPolled, cancelled, streamLen, nextJob, streamDone,
                   st, result, notes, progress, reports, pendingJobs, cur,
                   inflightAtCancel, rcvd, rec,
                   posAtCancel, bus, busOn>>

(***************************************************************************)
(* run_job, churten.rs:206-207: the first poll of a job's future           *)
(* broadcasts Start.                                                       *)
(***************************************************************************)
StartJobAnyTime(j) ==
    /\ pc = "drive"
    /\ st[j] \in {"stream", "queued"}
    /\ j <= streamLen
    /\ st' = [st EXCEPT ![j] = "running"]
    /\ notes' = [notes EXCEPT ![j] = Append(@, "Start")]
    /\ bus' = BusSend(<<j, "Start">>)
    /\ UNCHANGED mvars
    /\ UNCHANGED xvars
    /\ UNCHANGED <<task, pc, sdPolled, cancelled, streamLen, nextJob,
                   streamDone, result, progress, reports, pendingJobs, cur,
                   inflightAtCancel, rcvd, rec,
                   posAtCancel, busOn>>

StartJob(j) ==
    /\ pc = "drive"
    /\ st[j] = "queued"
    /\ st' = [st EXCEPT ![j] = "running"]
    /\ notes' = [notes EXCEPT ![j] = Append(@, "Start")]
    /\ bus' = BusSend(<<j, "Start">>)
    /\ UNCHANGED mvars
    /\ UNCHANGED xvars
    /\ UNCHANGED <<task, pc, sdPolled, cancelled, streamLen, nextJob,
                   streamDone, result, progress, reports, pendingJobs, cur,
                   inflightAtCancel, rcvd, rec,
                   posAtCancel, busOn>>

(***************************************************************************)
(* The handler, polled by the worker (churten.rs:208-211). It may publish  *)
(* progress through its TxByteCountProgress, cancel the token it was given *)
(* (a clone of the run's token, churten.rs:167) and return.                *)
(***************************************************************************)
HandlerUpdate(j) ==
    /\ pc = "drive"
    /\ st[j] = "running"
    /\ Count(notes[j], "Update") < MaxUpdates
    /\ notes' = [notes EXCEPT ![j] = Append(@, "Update")]
    /\ bus' = BusSend(<<j, "Update">>)
    /\ UNCHANGED mvars
    /\ UNCHANGED xvars
    /\ UNCHANGED <<task, pc, sdPolled, cancelled, streamLen, nextJob,
                   streamDone, st, result, progress, reports, pendingJobs,
                   cur, inflightAtCancel, rcvd, rec,
                   posAtCancel, busOn>>

\* FakeJobHandler::run, churten.rs:441-447: the handler cancels the token
\* and fails at once.
HandlerCancel(j) ==
    /\ pc = "drive"
    /\ st[j] = "running"
    /\ ~cancelled
    /\ CancelToken
    /\ result' = [result EXCEPT ![j] = "Err"]
    /\ st' = [st EXCEPT ![j] = "yielded"]
    /\ cur' = j
    /\ pc' = "finish"
    /\ UNCHANGED mvars
    /\ UNCHANGED xvars
    /\ UNCHANGED <<task, sdPolled, streamLen, nextJob, streamDone, notes,
                   progress, reports, pendingJobs, rcvd, rec,
                   bus, busOn>>

\* The future completes: result_stream.next() yields (arena, job_id, status).
HandlerReturn(j) ==
    /\ pc = "drive"
    /\ st[j] = "running"
    /\ \E r \in HandlerResults : result' = [result EXCEPT ![j] = r]
    /\ st' = [st EXCEPT ![j] = "yielded"]
    /\ cur' = j
    /\ pc' = "finish"
    /\ UNCHANGED mvars
    /\ UNCHANGED xvars
    /\ UNCHANGED <<task, sdPolled, cancelled, streamLen, nextJob, streamDone,
                   notes, progress, reports, pendingJobs, inflightAtCancel,
                   rcvd, rec,
                   posAtCancel, bus, busOn>>

(***************************************************************************)
(* No future is ready. result_stream.next() returns None when the stream   *)
(* has ended and no future is left, and is pending otherwise; a pending    *)
(* select! then polls shutdown.cancelled() unless it already did.          *)
(***************************************************************************)
DrivePendingEndsWithStream ==
    /\ pc = "drive"
    /\ \A j \in Jobs : st[j] # "queued"
    /\ pc' = IF streamDone THEN "done"
             ELSE IF ~sdPolled /\ cancelled THEN "done"
             ELSE "select"
    /\ UNCHANGED mvars
    /\ UNCHANGED xvars
    /\ UNCHANGED <<task, sdPolled, cancelled, streamLen, nextJob, streamDone,
                   st, result, notes, progress, reports, pendingJobs, cur,
                   inflightAtCancel, rcvd, rec,
                   posAtCancel, bus, busOn>>

DrivePendingNoShutdownPoll ==
    /\ pc = "drive"
    /\ \A j \in Jobs : st[j] # "queued"
    /\ pc' = IF InProgress = {} /\ streamDone THEN "done" ELSE "select"
    /\ UNCHANGED mvars
    /\ UNCHANGED xvars
    /\ UNCHANGED <<task, sdPolled, cancelled, streamLen, nextJob, streamDone,
                   st, result, notes, progress, reports, pendingJobs, cur,
                   inflightAtCancel, rcvd, rec,
                   posAtCancel, bus, busOn>>

DrivePending ==
    /\ pc = "drive"
    /\ \A j \in Jobs : st[j] # "queued"
    /\ pc' = IF InProgress = {} /\ streamDone THEN "done"
             ELSE IF ~sdPolled /\ cancelled THEN "done"
             ELSE "select"
    /\ UNCHANGED mvars
    /\ UNCHANGED xvars
    /\ UNCHANGED <<task, sdPolled, cancelled, streamLen, nextJob, streamDone,
                   st, result, notes, progress, reports, pendingJobs, cur,
                   inflightAtCancel, rcvd, rec,
                   posAtCancel, bus, busOn>>

\* A send that waited for room in the channel, as a bounded mpsc send does.
SendFinishWhenRoom ==
    /\ pc = "finish"
    /\ busOn => Len(bus) - tcur < BROADCAST_CHANNEL_CAPACITY
    /\ progress' = IF rec
                   THEN [progress EXCEPT ![cur] = FinishProgress(result[cur], cancelled)]
                   ELSE progress
    /\ notes' = [notes EXCEPT ![cur] = Append(@, "Finish")]
    /\ st' = [st EXCEPT ![cur] = "finished"]
    /\ pc' = "report"
    /\ bus' = BusSend(<<cur, "Finish">>)
    /\ UNCHANGED mvars
    /\ UNCHANGED xvars
    /\ UNCHANGED <<task, sdPolled, cancelled, streamLen, nextJob, streamDone,
                   result, reports, pendingJobs, cur, inflightAtCancel, rcvd, rec,
                   posAtCancel, busOn>>

(***************************************************************************)
(* The loop body, churten.rs:175-189: broadcast Finish.                    *)
(***************************************************************************)
SendFinish ==
    /\ pc = "finish"
    /\ progress' = IF rec
                   THEN [progress EXCEPT ![cur] = FinishProgress(result[cur], cancelled)]
                   ELSE progress
    /\ notes' = [notes EXCEPT ![cur] = Append(@, "Finish")]
    /\ st' = [st EXCEPT ![cur] = "finished"]
    /\ pc' = "report"
    /\ bus' = BusSend(<<cur, "Finish">>)
    /\ UNCHANGED mvars
    /\ UNCHANGED xvars
    /\ UNCHANGED <<task, sdPolled, cancelled, streamLen, nextJob, streamDone,
                   result, reports, pendingJobs, cur, inflightAtCancel, rcvd, rec,
                   posAtCancel, busOn>>

(***************************************************************************)
(* The loop body, churten.rs:190-193: storage.job_finished; its failure is *)
(* logged and the loop goes on.                                            *)
(***************************************************************************)
ReportStatusUnlessCancelled ==
    /\ pc = "report"
    /\ IF cancelled
       THEN /\ pc' = "done"
            /\ UNCHANGED <<pendingJobs, reports, result, st, cur>>
       ELSE /\ \E callOk \in BOOLEAN :
                 pendingJobs' = StorageJobFinished(pendingJobs, cur, result[cur], callOk)
            /\ reports' = IF rec THEN [reports EXCEPT ![cur] = Append(@, result[cur])]
                          ELSE reports
            /\ result' = IF rec THEN result ELSE [result EXCEPT ![cur] = "none"]
            /\ st' = [st EXCEPT ![cur] = "reported"]
            /\ cur' = 0
            /\ pc' = "select"
    /\ UNCHANGED mvars
    /\ UNCHANGED xvars
    /\ UNCHANGED <<task, sdPolled, cancelled, streamLen, nextJob, streamDone,
                   notes, progress, inflightAtCancel, rcvd, rec,
                   posAtCancel, bus, busOn>>

ReportStatusStopOnErr ==
    /\ pc = "report"
    /\ \E callOk \in BOOLEAN :
          /\ pendingJobs' = StorageJobFinished(pendingJobs, cur, result[cur], callOk)
          /\ pc' = IF callOk THEN "select" ELSE "done"
    /\ reports' = IF rec THEN [reports EXCEPT ![cur] = Append(@, result[cur])]
                  ELSE reports
    /\ result' = IF rec THEN result ELSE [result EXCEPT ![cur] = "none"]
    /\ st' = [st EXCEPT ![cur] = "reported"]
    /\ cur' = 0
    /\ UNCHANGED mvars
    /\ UNCHANGED xvars
    /\ UNCHANGED <<task, sdPolled, cancelled, streamLen, nextJob, streamDone,
                   notes, progress, inflightAtCancel, rcvd, rec,
                   posAtCancel, bus, busOn>>

ReportStatusAlwaysDone ==
    /\ pc = "report"
    /\ \E callOk \in BOOLEAN :
          pendingJobs' = StorageJobFinished(pendingJobs, cur, "Done", callOk)
    /\ reports' = IF rec THEN [reports EXCEPT ![cur] = Append(@, "Done")]
                  ELSE reports
    /\ result' = IF rec THEN result ELSE [result EXCEPT ![cur] = "none"]
    /\ st' = [st EXCEPT ![cur] = "reported"]
    /\ cur' = 0
    /\ pc' = "select"
    /\ UNCHANGED mvars
    /\ UNCHANGED xvars
    /\ UNCHANGED <<task, sdPolled, cancelled, streamLen, nextJob, streamDone,
                   notes, progress, inflightAtCancel, rcvd, rec,
                   posAtCancel, bus, busOn>>

ReportStatus ==
    /\ pc = "report"
    /\ \E callOk \in BOOLEAN :
          pendingJobs' = StorageJobFinished(pendingJobs, cur, result[cur], callOk)
    /\ reports' = IF rec THEN [reports EXCEPT ![cur] = Append(@, result[cur])]
                  ELSE reports
    /\ result' = IF rec THEN result ELSE [result EXCEPT ![cur] = "none"]
    /\ st' = [st EXCEPT ![cur] = "reported"]
    /\ cur' = 0
    /\ pc' = "select"
    /\ UNCHANGED mvars
    /\ UNCHANGED xvars
    /\ UNCHANGED <<task, sdPolled, cancelled, streamLen, nextJob, streamDone,
                   notes, progress, inflightAtCancel, rcvd, rec,
                   posAtCancel, bus, busOn>>

(***************************************************************************)
(* A subscriber (Churten::subscribe) receives the Finish of a job.         *)
(***************************************************************************)
SubscriberRecvFinish(j) ==
    /\ Has(notes[j], "Finish")
    /\ j \notin rcvd
    /\ rcvd' = rcvd \cup {j}
    /\ UNCHANGED mvars
    /\ UNCHANGED xvars
    /\ UNCHANGED <<task, pc, sdPolled, cancelled, streamLen, nextJob,
                   streamDone, st, result, notes, progress, reports,
                   pendingJobs, cur, inflightAtCancel, rec,
                   posAtCancel, bus, busOn>>

(***************************************************************************)
(* Churten::is_running (churten.rs:106-111): a handle is held and its task *)
(* has not finished.                                                       *)
(***************************************************************************)
IsRunning == task = "some" /\ pc # "done"

(***************************************************************************)
(* A call of Churten::start (churten.rs:114-128), the early return         *)
(* included. A spawn starts a new run with a new token and a new job       *)
(* stream; the call is modelled once the worker of the previous run, if    *)
(* any, has ended, so that one worker is running at a time.                *)
(***************************************************************************)
StartCall ==
    /\ task = "some" \/ pc \in {"unspawned", "done"}
    /\ runningBefore' = IsRunning
    /\ IF task = "some"
       THEN /\ lastCall' = "noop"
            /\ UNCHANGED cvars
       ELSE /\ lastCall' = "spawned"
            /\ task' = "some"
            /\ pc' = "select"
            /\ sdPolled' = FALSE
            /\ cancelled' = FALSE
            /\ nextJob' = 1
            /\ streamDone' = FALSE
            /\ st' = [j \in Jobs |-> "stream"]
            /\ result' = [j \in Jobs |-> "none"]
            /\ notes' = [j \in Jobs |-> <<>>]
            /\ progress' = [j \in Jobs |-> <<>>]
            /\ reports' = [j \in Jobs |-> <<>>]
            /\ pendingJobs' = 1..streamLen
            /\ cur' = 0
            /\ inflightAtCancel' = {}
            /\ UNCHANGED <<streamLen, rcvd, rec, posAtCancel, bus, busOn>>
    /\ UNCHANGED mvars
    /\ UNCHANGED <<tvars, pvars, dvars, avars, ivars, hvars, kvars, wvars>>

(***************************************************************************)
(* The tracker task, churten.rs:66-73: while let Ok(n) = rx.recv().await   *)
(* { tracker.update(&n) }. A receiver that is more than the capacity of    *)
(* the channel behind gets Err(Lagged) from recv(), which ends the loop    *)
(* and the task.                                                           *)
(***************************************************************************)
TrackerRecv ==
    /\ busOn
    /\ tpc = "recv"
    /\ tcur < Len(bus)
    /\ IF tcur < Len(bus) - BROADCAST_CHANNEL_CAPACITY
       THEN /\ tpc' = "ended"
            /\ UNCHANGED <<tcur, tracked>>
       ELSE /\ tcur' = tcur + 1
            /\ tracked' = [tracked EXCEPT ![bus[tcur + 1][1]] = bus[tcur + 1][2]]
            /\ UNCHANGED tpc
    /\ UNCHANGED <<cvars, mvars, lvars, pvars, dvars, avars, ivars, hvars, kvars, wvars>>

\* The state of the move_file variables in the runs of the scheduler.
MoveIdle ==
    /\ mSrc = <<>>
    /\ mSrcSize = 0
    /\ mSrcExists = FALSE
    /\ mDst = <<>>
    /\ mDstSize = 0
    /\ mFinished = FALSE
    /\ mpc = "end"
    /\ pass = 1
    /\ cpc = "idle"
    /\ hpc = "done"
    /\ copyTodo = <<>>
    /\ semHeld = FALSE
    /\ srcHash = {}
    /\ rsyncTodo = <<>>
    /\ fallback = {}
    /\ mCalls = <<>>
    /\ mEvents = <<>>
    /\ mResult = "none"

\* The state of the remaining variables where they play no part.
LifeIdle ==
    /\ lastCall = "none"
    /\ runningBefore = FALSE

TrackIdle ==
    /\ tcur = 0
    /\ tpc = "recv"
    /\ tracked = [j \in Jobs |-> "none"]

\* churten.rs:24, scaled down: the byte delta below which a byte count is
\* not published.
BROADCAST_CHANNEL_RESOLUTION_BYTES == 2

\* The cap of the adaptive threshold.
MaxThreshold == 4

\* The largest byte count a handler reports.
MaxBytes == 3

\* The number of notifications one job's reporter publishes at most.
MaxPublished == 4

\* The reporter of run_job: the job's New and Start came first, so that the
\* first notification of the reporter carries index 2.
RunJobProgress ==
    /\ pidx = 2
    /\ plast = -1
    /\ pthr = BROADCAST_CHANNEL_RESOLUTION_BYTES
    /\ pbus = <<>>
    /\ prcur = 0
    /\ pseen = <<>>
    /\ pcall = <<>>

\* The number of files of one move_dirs call.
NumFiles == 3

\* movedirs.rs:24, scaled down: the files move_dirs processes in parallel.
PARALLEL_FILE_COUNT == 2

\* The largest number of chunks one copy_file_range copies.
MaxChunks == 2

Files == 1..NumFiles

\* move_dirs, movedirs.rs:193-194: the files are listed, none is started,
\* copy_sem has its single permit.
DirsEntry ==
    /\ fpc = [f \in Files |-> "queued"]
    /\ fpass = [f \in Files |-> 1]
    /\ fchunks = [f \in Files |-> 0]
    /\ copySem = 1
    /\ ferr = [f \in Files |-> "none"]
    /\ dresult = <<>>
    /\ flast = [f \in Files |-> "none"]

\* The largest file of the store, in blocks.
MaxFile == 2

\* The largest modification time.
MaxTime == 1

\* An arena whose path has no file and no index entry (tests::Fixture::setup,
\* indexed_store.rs:136-152).
StoreSetup ==
    /\ ifile = <<>>
    /\ ientry = <<>>
    /\ ropen = FALSE
    /\ rlast = <<>>

\* Largest file_size and chunk_size passed to hash_file, in blocks.
MaxHashSize == 5
MaxHashChunk == 2

\* movedirs.rs:26, scaled down.
PARALLEL_FILE_HASH == 2

\* hash_file is called (movedirs.rs:672-683) on a file of a peer, with the
\* size the caller believes the file has.
HashEntry ==
    /\ hcontent = <<>>
    /\ hsize = 0
    /\ hchunk = 1
    /\ hnext = 0
    /\ hflight = {}
    /\ hres = <<>>
    /\ hret = <<>>

\* Number of arenas passed to move_dirs, number of paths of an arena and
\* largest size of a listed file.
NumArenas == 2
MaxPaths == 2
MaxListSize == 2

Arenas == 1..NumArenas

\* move_dirs is entered (movedirs.rs:171-182) with the arenas to move.
ListEntry(n, P) ==
    /\ knum = n
    /\ kpaths = P
    /\ klist = [a \in Arenas |-> <<>>]
    /\ kcol = [a \in Arenas |-> <<>>]
    /\ kpc = "collect"
    /\ ksync = <<>>
    /\ kmoved = 0
    /\ kcalls = {}
    /\ kevents = <<>>
    /\ kret = <<>>

\* Workers one Churten spawns at most, in the runs that restart it.
MaxWorkers == 3

Workers == 1..MaxWorkers

\* Churten::with_handler, churten.rs:62-82: no task yet.
NoWorker ==
    /\ wtask = 0
    /\ wst = [w \in Workers |-> "unspawned"]
    /\ wtok = [w \in Workers |-> FALSE]
    /\ wfly = [w \in Workers |-> 0]

OtherIdle ==
    /\ NoWorker
    /\ LifeIdle
    /\ TrackIdle
    /\ RunJobProgress
    /\ DirsEntry
    /\ StoreSetup
    /\ HashEntry
    /\ ListEntry(0, {})

ExtraIdle == OtherIdle /\ mDst0 = <<>>

(***************************************************************************)
(* Specifications                                                          *)
(***************************************************************************)
InitWorker(n, r, p, b) ==
    /\ task = "none"
    /\ pc = "unspawned"
    /\ sdPolled = FALSE
    /\ cancelled = FALSE
    /\ streamLen = n
    /\ nextJob = 1
    /\ streamDone = FALSE
    /\ st = [j \in Jobs |-> "stream"]
    /\ result = [j \in Jobs |-> "none"]
    /\ notes = [j \in Jobs |-> <<>>]
    /\ progress = [j \in Jobs |-> <<>>]
    /\ reports = [j \in Jobs |-> <<>>]
    /\ pendingJobs = 1..n
    /\ cur = 0
    /\ inflightAtCancel = {}
    /\ rcvd = {}
    /\ rec = r
    /\ posAtCancel = IF p THEN <<>> ELSE <<"off">>
    /\ bus = <<>>
    /\ busOn = b

\* A run that does not record where the token was cancelled and has no
\* receiver of the channel in the model.
InitChurten(n, r) == InitWorker(n, r, FALSE, FALSE)

\* The worker, but for the progress a handler publishes.
WorkerNext ==
    \/ BeginPoll
    \/ Pull
    \/ StreamEnd
    \/ FillDone
    \/ \E j \in Jobs : StartJob(j)
    \/ \E j \in Jobs : HandlerCancel(j)
    \/ \E j \in Jobs : HandlerReturn(j)
    \/ DrivePending
    \/ SendFinish
    \/ ReportStatus

\* One scheduler run over NumJobs jobs.
Init == InitChurten(NumJobs, TRUE) /\ MoveIdle /\ ExtraIdle

Next ==
    \/ Start
    \/ Shutdown
    \/ WorkerNext
    \/ \E j \in Jobs : HandlerUpdate(j)

Spec == Init /\ [][Next]_vars

\* The same run, observed by a subscriber.
NextSub ==
    \/ Next
    \/ \E j \in Jobs : SubscriberRecvFinish(j)

SpecSub == Init /\ [][NextSub]_vars

\* One scheduler run over ParJobs jobs whose handlers publish no progress.
InitPar == InitChurten(ParJobs, FALSE) /\ MoveIdle /\ ExtraIdle

NextPar ==
    \/ Start
    \/ Shutdown
    \/ WorkerNext

SpecPar == InitPar /\ [][NextPar]_vars

(***************************************************************************)
(* The worker is a spawned task (churten.rs:119-126): the runtime keeps    *)
(* polling it while it can make a step of its own. Nothing is assumed of   *)
(* the job stream or of the handlers: the stream may stay pending and a    *)
(* handler may never return.                                               *)
(***************************************************************************)
WorkerStep ==
    \/ BeginPoll
    \/ FillDone
    \/ \E j \in Jobs : StartJob(j)
    \/ DrivePending
    \/ SendFinish
    \/ ReportStatus

InitStop == InitChurten(NumJobs, FALSE) /\ MoveIdle /\ ExtraIdle

SpecStop == InitStop /\ [][NextPar]_vars /\ WF_vars(WorkerStep)

(***************************************************************************)
(* The same, with a job stream that yields its jobs and ends and handlers  *)
(* that return: whenever the worker polls them again and again, the stream *)
(* eventually answers and each handler eventually completes.               *)
(***************************************************************************)
StreamStep == Pull \/ StreamEnd

InitRun == InitChurten(NumJobs, FALSE) /\ MoveIdle /\ ExtraIdle

SpecRun ==
    /\ InitRun
    /\ [][NextPar]_vars
    /\ WF_vars(WorkerStep)
    /\ SF_vars(StreamStep)
    /\ \A j \in Jobs : SF_vars(HandlerReturn(j))

(***************************************************************************)
(* move_file (movedirs.rs). Sizes and offsets are counted in blocks;       *)
(* CHUNK_SIZE and HASH_FILE_CHUNK are scaled down so that a file of a few  *)
(* blocks spans several copy chunks and several hash chunks.               *)
(***************************************************************************)
\* Largest source file, in blocks.
MaxSize == 3
\* movedirs.rs:23, scaled down.
CHUNK_SIZE == 1
\* movedirs.rs:25, scaled down.
HASH_FILE_CHUNK == 2

\* The values of a block of a file; Hole is what a gap left by a write
\* beyond the end of a file reads.
Blocks == {1, 2}
Hole == 0

Min(a, b) == IF a < b THEN a ELSE b

Max(a, b) == IF a > b THEN a ELSE b

Contents(n) == UNION {[1..k -> Blocks] : k \in 0..n}

\* ByteRanges, as the set of the offsets it covers.
Single(lo, hi) == lo..(hi - 1)

MinOf(S) == CHOOSE x \in S : \A y \in S : x <= y

\* End of the chunk that starts at lo: the end of the range or lo + c.
RECURSIVE ChunkEnd(_, _, _, _)
ChunkEnd(S, lo, hi, c) ==
    IF hi \in S /\ hi < lo + c THEN ChunkEnd(S, lo, hi + 1, c) ELSE hi

\* ByteRanges::chunked: the ranges of the set cut into chunks of at most c,
\* in ascending order, each a pair <<start, end>>.
RECURSIVE Chunked(_, _)
Chunked(S, c) ==
    IF S = {} THEN <<>>
    ELSE LET lo == MinOf(S)
             hi == ChunkEnd(S, lo, lo + 1, c)
         IN <<(<<lo, hi>>)>> \o Chunked(S \ (lo..(hi - 1)), c)

\* The blocks [lo, hi) of a file, as far as the file goes.
ReadRange(content, lo, hi) ==
    IF lo >= Len(content) THEN <<>>
    ELSE SubSeq(content, lo + 1, Min(hi, Len(content)))

\* The file after data is written at offset lo.
WriteAt(content, lo, data) ==
    [i \in 1..Max(Len(content), lo + Len(data)) |->
        IF i > lo /\ i <= lo + Len(data) THEN data[i - lo]
        ELSE IF i <= Len(content) THEN content[i]
        ELSE Hole]

\* The hash service of a peer: Hash::zero for a range past the end of file.
ZeroHash == <<"zero">>

RemoteHash(content, r) ==
    IF r[2] <= Len(content) THEN <<"h", SubSeq(content, r[1] + 1, r[2])>>
    ELSE ZeroHash

\* hash_file (movedirs.rs:672-700): the RangedHash of the chunks of
\* [0, file_size), each with the hash the peer returns for it.
HashFile(content, file_size, chunk_size) ==
    LET chunks == Chunked(Single(0, file_size), chunk_size)
    IN {<<chunks[i], RemoteHash(content, chunks[i])>> : i \in 1..Len(chunks)}

\* RangedHash::is_complete: the hashed ranges cover [0, file_size).
IsComplete(rh, file_size) ==
    UNION {Single(e[1][1], e[1][2]) : e \in {x \in rh : x[2] # ZeroHash}}
        = Single(0, file_size)

\* RangedHash::diff: the ranges on which the two agree, and the others.
DiffMatches(a, b) == UNION {Single(e[1][1], e[1][2]) : e \in a \cap b}

DiffMismatches(a, b) ==
    UNION {Single(e[1][1], e[1][2]) : e \in (a \cup b) \ (a \cap b)}

(***************************************************************************)
(* check_hashes_and_delete, movedirs.rs:739-742: whether the hashes match. *)
(***************************************************************************)
HashesMatchNoComplete(src_hash, dst_hash, file_size) ==
    DiffMismatches(src_hash, dst_hash) = {}

HashesMatchCompleteOnly(src_hash, dst_hash, file_size) ==
    /\ IsComplete(src_hash, file_size)
    /\ IsComplete(dst_hash, file_size)

HashesMatch(src_hash, dst_hash, file_size) ==
    ~(\/ DiffMismatches(src_hash, dst_hash) # {}
      \/ ~IsComplete(src_hash, file_size)
      \/ ~IsComplete(dst_hash, file_size))

Call(op, lo, hi, outcome) == <<op, lo, hi, outcome>>

\* move_file returns: the permit is released when copy_file_range returns.
Return(res) ==
    /\ mResult' = res
    /\ mpc' = "end"

(***************************************************************************)
(* copy_file_range, movedirs.rs:536-545: nothing to do for no range;       *)
(* otherwise PendingFile, the permit, CopyingFile.                         *)
(***************************************************************************)
\* What follows copy_file_range in move_file: the truncate of the first
\* phase (movedirs.rs:371-375) or the second verify (movedirs.rs:443-445).
AfterCopy ==
    IF mpc = "join"
    THEN /\ cpc' = "truncate"
         /\ UNCHANGED <<mpc, mResult, mEvents>>
    ELSE /\ cpc' = "idle"
         /\ mpc' = "verify"
         /\ mEvents' = Append(mEvents, <<"VerifyingFile", 0>>)
         /\ UNCHANGED mResult

\* The error of the copy: the first phase waits for the hash (tokio::join!),
\* the fallback phase returns it.
CopyFailed ==
    IF mpc = "join"
    THEN /\ cpc' = "failed"
         /\ UNCHANGED <<mpc, mResult>>
    ELSE /\ cpc' = "idle"
         /\ Return("Err")

\* A copy that waited for the permit without reporting that it waits.
CopyBeginNoPending ==
    /\ mpc \in {"join", "fallback"}
    /\ cpc = "begin"
    /\ LET ranges == IF mpc = "join"
                     THEN Single(0, mSrcSize) \ Single(0, mDstSize)
                     ELSE fallback
       IN IF ranges = {}
          THEN /\ AfterCopy
               /\ UNCHANGED copyTodo
          ELSE /\ cpc' = "pending"
               /\ copyTodo' = Chunked(ranges, CHUNK_SIZE)
               /\ UNCHANGED <<mpc, mResult, mEvents>>
    /\ UNCHANGED cvars
    /\ UNCHANGED xvars
    /\ UNCHANGED <<mSrc, mSrcSize, mSrcExists, mDst, mDstSize, mFinished, pass,
                   hpc, semHeld, srcHash, rsyncTodo, fallback, mCalls>>

CopyBeginWholeFile ==
    /\ mpc \in {"join", "fallback"}
    /\ cpc = "begin"
    /\ LET ranges == IF mpc = "join"
                     THEN Single(0, mSrcSize)
                     ELSE fallback
       IN IF ranges = {}
          THEN /\ AfterCopy
               /\ UNCHANGED copyTodo
          ELSE /\ cpc' = "pending"
               /\ copyTodo' = Chunked(ranges, CHUNK_SIZE)
               /\ mEvents' = Append(mEvents, <<"PendingFile", 0>>)
               /\ UNCHANGED <<mpc, mResult>>
    /\ UNCHANGED cvars
    /\ UNCHANGED xvars
    /\ UNCHANGED <<mSrc, mSrcSize, mSrcExists, mDst, mDstSize, mFinished, pass,
                   hpc, semHeld, srcHash, rsyncTodo, fallback, mCalls>>

CopyBegin ==
    /\ mpc \in {"join", "fallback"}
    /\ cpc = "begin"
    /\ LET ranges == IF mpc = "join"
                     THEN Single(0, mSrcSize) \ Single(0, mDstSize)
                     ELSE fallback
       IN IF ranges = {}
          THEN /\ AfterCopy
               /\ UNCHANGED copyTodo
          ELSE /\ cpc' = "pending"
               /\ copyTodo' = Chunked(ranges, CHUNK_SIZE)
               /\ mEvents' = Append(mEvents, <<"PendingFile", 0>>)
               /\ UNCHANGED <<mpc, mResult>>
    /\ UNCHANGED cvars
    /\ UNCHANGED xvars
    /\ UNCHANGED <<mSrc, mSrcSize, mSrcExists, mDst, mDstSize, mFinished, pass,
                   hpc, semHeld, srcHash, rsyncTodo, fallback, mCalls>>

CopyAcquire ==
    /\ cpc = "pending"
    /\ ~semHeld
    /\ semHeld' = TRUE
    /\ cpc' = "copying"
    /\ mEvents' = Append(mEvents, <<"CopyingFile", 0>>)
    /\ UNCHANGED cvars
    /\ UNCHANGED xvars
    /\ UNCHANGED <<mSrc, mSrcSize, mSrcExists, mDst, mDstSize, mFinished, mpc,
                   pass, hpc, copyTodo, srcHash, rsyncTodo, fallback, mCalls,
                   mResult>>

(***************************************************************************)
(* copy_file_range, movedirs.rs:546-566: read a chunk from the source and  *)
(* send it to the destination; either call may fail.                       *)
(***************************************************************************)
CopyChunk ==
    /\ cpc = "copying"
    /\ copyTodo # <<>>
    /\ LET r == Head(copyTodo)
           data == ReadRange(mSrc, r[1], r[2])
       IN \E outcome \in {"ok", "readErr", "sendErr"} :
            CASE outcome = "readErr" ->
                    /\ mCalls' = Append(mCalls, Call("src.read", r[1], r[2], "err"))
                    /\ semHeld' = FALSE
                    /\ CopyFailed
                    /\ UNCHANGED <<mDst, copyTodo, mEvents>>
              [] outcome = "sendErr" ->
                    /\ mCalls' = mCalls \o <<Call("src.read", r[1], r[2], "ok"),
                                             Call("dst.send", r[1], r[2], "err")>>
                    /\ semHeld' = FALSE
                    /\ CopyFailed
                    /\ UNCHANGED <<mDst, copyTodo, mEvents>>
              [] OTHER ->
                    /\ mCalls' = mCalls \o <<Call("src.read", r[1], r[2], "ok"),
                                             Call("dst.send", r[1], r[2], "ok")>>
                    /\ mDst' = WriteAt(mDst, r[1], data)
                    /\ copyTodo' = Tail(copyTodo)
                    /\ mEvents' = Append(mEvents, <<"IncrementByteCount", r[2] - r[1]>>)
                    /\ UNCHANGED <<cpc, semHeld, mpc, mResult>>
    /\ UNCHANGED cvars
    /\ UNCHANGED xvars
    /\ UNCHANGED <<mSrc, mSrcSize, mSrcExists, mDstSize, mFinished, pass, hpc,
                   srcHash, rsyncTodo, fallback>>

\* copy_file_range returns Ok and drops the permit.
CopyEnd ==
    /\ cpc = "copying"
    /\ copyTodo = <<>>
    /\ semHeld' = FALSE
    /\ AfterCopy
    /\ UNCHANGED cvars
    /\ UNCHANGED xvars
    /\ UNCHANGED <<mSrc, mSrcSize, mSrcExists, mDst, mDstSize, mFinished, pass,
                   hpc, copyTodo, srcHash, rsyncTodo, fallback, mCalls>>

(***************************************************************************)
(* move_file, movedirs.rs:371-377: truncate a destination longer than the  *)
(* source.                                                                 *)
(***************************************************************************)
TruncateWhenNotSmaller ==
    /\ mpc = "join"
    /\ cpc = "truncate"
    /\ IF mDstSize >= mSrcSize
       THEN \E ok \in BOOLEAN :
              IF ok
              THEN /\ mDst' = SubSeq(mDst, 1, Min(mSrcSize, Len(mDst)))
                   /\ mCalls' = Append(mCalls, Call("dst.truncate", mSrcSize, mSrcSize, "ok"))
                   /\ cpc' = "done"
              ELSE /\ mCalls' = Append(mCalls, Call("dst.truncate", mSrcSize, mSrcSize, "err"))
                   /\ cpc' = "failed"
                   /\ UNCHANGED mDst
       ELSE /\ cpc' = "done"
            /\ UNCHANGED <<mDst, mCalls>>
    /\ UNCHANGED cvars
    /\ UNCHANGED xvars
    /\ UNCHANGED <<mSrc, mSrcSize, mSrcExists, mDstSize, mFinished, mpc, pass,
                   hpc, copyTodo, semHeld, srcHash, rsyncTodo, fallback,
                   mEvents, mResult>>

Truncate ==
    /\ mpc = "join"
    /\ cpc = "truncate"
    /\ IF mDstSize > mSrcSize
       THEN \E ok \in BOOLEAN :
              IF ok
              THEN /\ mDst' = SubSeq(mDst, 1, Min(mSrcSize, Len(mDst)))
                   /\ mCalls' = Append(mCalls, Call("dst.truncate", mSrcSize, mSrcSize, "ok"))
                   /\ cpc' = "done"
              ELSE /\ mCalls' = Append(mCalls, Call("dst.truncate", mSrcSize, mSrcSize, "err"))
                   /\ cpc' = "failed"
                   /\ UNCHANGED mDst
       ELSE /\ cpc' = "done"
            /\ UNCHANGED <<mDst, mCalls>>
    /\ UNCHANGED cvars
    /\ UNCHANGED xvars
    /\ UNCHANGED <<mSrc, mSrcSize, mSrcExists, mDstSize, mFinished, mpc, pass,
                   hpc, copyTodo, semHeld, srcHash, rsyncTodo, fallback,
                   mEvents, mResult>>

(***************************************************************************)
(* move_file, movedirs.rs:380-388: the hash of the source, computed while  *)
(* the copy goes on.                                                       *)
(***************************************************************************)
HashSource ==
    /\ mpc = "join"
    /\ hpc = "todo"
    /\ \E ok \in BOOLEAN :
          IF ok
          THEN /\ srcHash' = HashFile(mSrc, mSrcSize, HASH_FILE_CHUNK)
               /\ hpc' = "done"
               /\ mCalls' = Append(mCalls, Call("src.hash", 0, mSrcSize, "ok"))
          ELSE /\ hpc' = "failed"
               /\ mCalls' = Append(mCalls, Call("src.hash", 0, mSrcSize, "err"))
               /\ UNCHANGED srcHash
    /\ UNCHANGED cvars
    /\ UNCHANGED xvars
    /\ UNCHANGED <<mSrc, mSrcSize, mSrcExists, mDst, mDstSize, mFinished, mpc,
                   pass, cpc, copyTodo, semHeld, rsyncTodo, fallback, mEvents,
                   mResult>>

\* A join that looked at the result of the copy only.
JoinDoneIgnoresHash ==
    /\ mpc = "join"
    /\ cpc \in {"done", "failed"}
    /\ hpc \in {"done", "failed"}
    /\ IF cpc = "failed"
       THEN /\ Return("Err")
            /\ UNCHANGED mEvents
       ELSE /\ mpc' = "verify"
            /\ mEvents' = Append(mEvents, <<"VerifyingFile", 0>>)
            /\ UNCHANGED mResult
    /\ cpc' = "idle"
    /\ UNCHANGED cvars
    /\ UNCHANGED xvars
    /\ UNCHANGED <<mSrc, mSrcSize, mSrcExists, mDst, mDstSize, mFinished, pass,
                   hpc, copyTodo, semHeld, srcHash, rsyncTodo, fallback, mCalls>>

(***************************************************************************)
(* move_file, movedirs.rs:389-394: tokio::join! waits for both; an error   *)
(* of either is returned, otherwise VerifyingFile is sent.                 *)
(***************************************************************************)
JoinDone ==
    /\ mpc = "join"
    /\ cpc \in {"done", "failed"}
    /\ hpc \in {"done", "failed"}
    /\ IF cpc = "failed" \/ hpc = "failed"
       THEN /\ Return("Err")
            /\ UNCHANGED mEvents
       ELSE /\ mpc' = "verify"
            /\ mEvents' = Append(mEvents, <<"VerifyingFile", 0>>)
            /\ UNCHANGED mResult
    /\ cpc' = "idle"
    /\ UNCHANGED cvars
    /\ UNCHANGED xvars
    /\ UNCHANGED <<mSrc, mSrcSize, mSrcExists, mDst, mDstSize, mFinished, pass,
                   hpc, copyTodo, semHeld, srcHash, rsyncTodo, fallback, mCalls>>

(***************************************************************************)
(* check_hashes_and_delete, movedirs.rs:729-752: hash the destination and  *)
(* compare. On a mismatch the first pass goes on with rsync                *)
(* (movedirs.rs:406-417), the second returns FailedToSync                  *)
(* (movedirs.rs:445-446).                                                  *)
(***************************************************************************)
\* A first pass that handed the whole file to rsync.
VerifyRsyncsWholeFile ==
    /\ mpc = "verify"
    /\ \E ok \in BOOLEAN :
         IF ~ok
         THEN /\ mCalls' = Append(mCalls, Call("dst.hash", 0, mSrcSize, "err"))
              /\ Return("Err")
              /\ UNCHANGED <<rsyncTodo, mEvents>>
         ELSE LET dst_hash == HashFile(mDst, mSrcSize, HASH_FILE_CHUNK)
                  rsync_ranges == Single(0, mSrcSize)
              IN /\ mCalls' = Append(mCalls, Call("dst.hash", 0, mSrcSize, "ok"))
                 /\ IF HashesMatch(srcHash, dst_hash, mSrcSize)
                    THEN /\ mpc' = "finish"
                         /\ UNCHANGED <<rsyncTodo, mEvents, mResult>>
                    ELSE IF pass = 1
                    THEN /\ mpc' = "rsync"
                         /\ rsyncTodo' = Chunked(rsync_ranges, CHUNK_SIZE)
                         /\ mEvents' =
                               mEvents
                               \o (IF rsync_ranges = {} THEN <<>>
                                   ELSE <<(<<"DecrementByteCount",
                                             Cardinality(rsync_ranges)>>)>>)
                               \o (IF rsync_ranges = {} THEN <<>>
                                   ELSE <<(<<"RsyncingFile", 0>>)>>)
                         /\ UNCHANGED mResult
                    ELSE /\ Return("FailedToSync")
                         /\ UNCHANGED <<rsyncTodo, mEvents>>
    /\ UNCHANGED cvars
    /\ UNCHANGED xvars
    /\ UNCHANGED <<mSrc, mSrcSize, mSrcExists, mDst, mDstSize, mFinished, pass,
                   cpc, hpc, copyTodo, semHeld, srcHash, fallback>>

VerifyRepairsAgain ==
    /\ mpc = "verify"
    /\ \E ok \in BOOLEAN :
         IF ~ok
         THEN /\ mCalls' = Append(mCalls, Call("dst.hash", 0, mSrcSize, "err"))
              /\ Return("Err")
              /\ UNCHANGED <<rsyncTodo, mEvents>>
         ELSE LET dst_hash == HashFile(mDst, mSrcSize, HASH_FILE_CHUNK)
                  rsync_ranges == Single(0, mSrcSize) \ DiffMatches(srcHash, dst_hash)
              IN /\ mCalls' = Append(mCalls, Call("dst.hash", 0, mSrcSize, "ok"))
                 /\ IF HashesMatch(srcHash, dst_hash, mSrcSize)
                    THEN /\ mpc' = "finish"
                         /\ UNCHANGED <<rsyncTodo, mEvents, mResult>>
                    ELSE IF pass \in {1, 2}
                    THEN /\ mpc' = "rsync"
                         /\ rsyncTodo' = Chunked(rsync_ranges, CHUNK_SIZE)
                         /\ mEvents' =
                               mEvents
                               \o (IF rsync_ranges = {} THEN <<>>
                                   ELSE <<(<<"DecrementByteCount",
                                             Cardinality(rsync_ranges)>>)>>)
                               \o (IF rsync_ranges = {} THEN <<>>
                                   ELSE <<(<<"RsyncingFile", 0>>)>>)
                         /\ UNCHANGED mResult
                    ELSE /\ Return("FailedToSync")
                         /\ UNCHANGED <<rsyncTodo, mEvents>>
    /\ UNCHANGED cvars
    /\ UNCHANGED xvars
    /\ UNCHANGED <<mSrc, mSrcSize, mSrcExists, mDst, mDstSize, mFinished, pass,
                   cpc, hpc, copyTodo, semHeld, srcHash, fallback>>

Verify ==
    /\ mpc = "verify"
    /\ \E ok \in BOOLEAN :
         IF ~ok
         THEN /\ mCalls' = Append(mCalls, Call("dst.hash", 0, mSrcSize, "err"))
              /\ Return("Err")
              /\ UNCHANGED <<rsyncTodo, mEvents>>
         ELSE LET dst_hash == HashFile(mDst, mSrcSize, HASH_FILE_CHUNK)
                  rsync_ranges == Single(0, mSrcSize) \ DiffMatches(srcHash, dst_hash)
              IN /\ mCalls' = Append(mCalls, Call("dst.hash", 0, mSrcSize, "ok"))
                 /\ IF HashesMatch(srcHash, dst_hash, mSrcSize)
                    THEN /\ mpc' = "finish"
                         /\ UNCHANGED <<rsyncTodo, mEvents, mResult>>
                    ELSE IF pass = 1
                    THEN /\ mpc' = "rsync"
                         /\ rsyncTodo' = Chunked(rsync_ranges, CHUNK_SIZE)
                         /\ mEvents' =
                               mEvents
                               \o (IF rsync_ranges = {} THEN <<>>
                                   ELSE <<(<<"DecrementByteCount",
                                             Cardinality(rsync_ranges)>>)>>)
                               \o (IF rsync_ranges = {} THEN <<>>
                                   ELSE <<(<<"RsyncingFile", 0>>)>>)
                         /\ UNCHANGED mResult
                    ELSE /\ Return("FailedToSync")
                         /\ UNCHANGED <<rsyncTodo, mEvents>>
    /\ UNCHANGED cvars
    /\ UNCHANGED xvars
    /\ UNCHANGED <<mSrc, mSrcSize, mSrcExists, mDst, mDstSize, mFinished, pass,
                   cpc, hpc, copyTodo, semHeld, srcHash, fallback>>

(***************************************************************************)
(* check_hashes_and_delete, movedirs.rs:755-756: dst.finish.               *)
(***************************************************************************)
Finish ==
    /\ mpc = "finish"
    /\ \E ok \in BOOLEAN :
         IF ok
         THEN /\ mFinished' = TRUE
              /\ mCalls' = Append(mCalls, Call("dst.finish", 0, 0, "ok"))
              /\ mpc' = "delete"
              /\ UNCHANGED mResult
         ELSE /\ mCalls' = Append(mCalls, Call("dst.finish", 0, 0, "err"))
              /\ Return("Err")
              /\ UNCHANGED mFinished
    /\ UNCHANGED cvars
    /\ UNCHANGED xvars
    /\ UNCHANGED <<mSrc, mSrcSize, mSrcExists, mDst, mDstSize, pass, cpc, hpc,
                   copyTodo, semHeld, srcHash, rsyncTodo, fallback, mEvents>>

(***************************************************************************)
(* check_hashes_and_delete, movedirs.rs:757-761: src.delete.               *)
(***************************************************************************)
Delete ==
    /\ mpc = "delete"
    /\ \E ok \in BOOLEAN :
         IF ok
         THEN /\ mSrcExists' = FALSE
              /\ mCalls' = Append(mCalls, Call("src.delete", 0, 0, "ok"))
              /\ Return("Ok")
         ELSE /\ mCalls' = Append(mCalls, Call("src.delete", 0, 0, "err"))
              /\ Return("Err")
              /\ UNCHANGED mSrcExists
    /\ UNCHANGED cvars
    /\ UNCHANGED xvars
    /\ UNCHANGED <<mSrc, mSrcSize, mDst, mDstSize, mFinished, pass, cpc, hpc,
                   copyTodo, semHeld, srcHash, rsyncTodo, fallback, mEvents>>

(***************************************************************************)
(* rsync_file_range, movedirs.rs:471-517: for each chunk the signature of  *)
(* the destination, the delta of the source and its application. A         *)
(* HashMismatch of apply_delta sends the chunk to the fallback ranges, any *)
(* other error is returned.                                                *)
(***************************************************************************)
RsyncChunkMismatchAborts ==
    /\ mpc = "rsync"
    /\ rsyncTodo # <<>>
    /\ LET r == Head(rsyncTodo)
           sig == Call("dst.calculate_signature", r[1], r[2], "ok")
           diff == Call("src.diff", r[1], r[2], "ok")
       IN \E outcome \in {"ok", "HashMismatch", "sigErr", "diffErr", "applyErr"} :
            CASE outcome = "sigErr" ->
                    /\ mCalls' = Append(mCalls,
                                        Call("dst.calculate_signature", r[1], r[2], "err"))
                    /\ Return("Err")
                    /\ UNCHANGED <<mDst, rsyncTodo, fallback, mEvents>>
              [] outcome = "diffErr" ->
                    /\ mCalls' = mCalls \o <<sig, Call("src.diff", r[1], r[2], "err")>>
                    /\ Return("Err")
                    /\ UNCHANGED <<mDst, rsyncTodo, fallback, mEvents>>
              [] outcome = "applyErr" ->
                    /\ mCalls' = mCalls \o <<sig, diff,
                                             Call("dst.apply_delta", r[1], r[2], "err")>>
                    /\ Return("Err")
                    /\ UNCHANGED <<mDst, rsyncTodo, fallback, mEvents>>
              [] outcome = "HashMismatch" ->
                    /\ mCalls' = mCalls \o <<sig, diff,
                                             Call("dst.apply_delta", r[1], r[2], "HashMismatch")>>
                    /\ Return("Err")
                    /\ UNCHANGED <<mDst, rsyncTodo, fallback, mEvents>>
              [] OTHER ->
                    /\ mCalls' = mCalls \o <<sig, diff,
                                             Call("dst.apply_delta", r[1], r[2], "ok")>>
                    /\ mDst' = WriteAt(mDst, r[1], ReadRange(mSrc, r[1], r[2]))
                    /\ rsyncTodo' = Tail(rsyncTodo)
                    /\ mEvents' = Append(mEvents, <<"IncrementByteCount", r[2] - r[1]>>)
                    /\ UNCHANGED <<fallback, mpc, mResult>>
    /\ UNCHANGED cvars
    /\ UNCHANGED xvars
    /\ UNCHANGED <<mSrc, mSrcSize, mSrcExists, mDstSize, mFinished, pass, cpc,
                   hpc, copyTodo, semHeld, srcHash>>

RsyncChunk ==
    /\ mpc = "rsync"
    /\ rsyncTodo # <<>>
    /\ LET r == Head(rsyncTodo)
           sig == Call("dst.calculate_signature", r[1], r[2], "ok")
           diff == Call("src.diff", r[1], r[2], "ok")
       IN \E outcome \in {"ok", "HashMismatch", "sigErr", "diffErr", "applyErr"} :
            CASE outcome = "sigErr" ->
                    /\ mCalls' = Append(mCalls,
                                        Call("dst.calculate_signature", r[1], r[2], "err"))
                    /\ Return("Err")
                    /\ UNCHANGED <<mDst, rsyncTodo, fallback, mEvents>>
              [] outcome = "diffErr" ->
                    /\ mCalls' = mCalls \o <<sig, Call("src.diff", r[1], r[2], "err")>>
                    /\ Return("Err")
                    /\ UNCHANGED <<mDst, rsyncTodo, fallback, mEvents>>
              [] outcome = "applyErr" ->
                    /\ mCalls' = mCalls \o <<sig, diff,
                                             Call("dst.apply_delta", r[1], r[2], "err")>>
                    /\ Return("Err")
                    /\ UNCHANGED <<mDst, rsyncTodo, fallback, mEvents>>
              [] outcome = "HashMismatch" ->
                    /\ mCalls' = mCalls \o <<sig, diff,
                                             Call("dst.apply_delta", r[1], r[2], "HashMismatch")>>
                    /\ fallback' = fallback \cup Single(r[1], r[2])
                    /\ rsyncTodo' = Tail(rsyncTodo)
                    /\ UNCHANGED <<mDst, mEvents, mpc, mResult>>
              [] OTHER ->
                    /\ mCalls' = mCalls \o <<sig, diff,
                                             Call("dst.apply_delta", r[1], r[2], "ok")>>
                    /\ mDst' = WriteAt(mDst, r[1], ReadRange(mSrc, r[1], r[2]))
                    /\ rsyncTodo' = Tail(rsyncTodo)
                    /\ mEvents' = Append(mEvents, <<"IncrementByteCount", r[2] - r[1]>>)
                    /\ UNCHANGED <<fallback, mpc, mResult>>
    /\ UNCHANGED cvars
    /\ UNCHANGED xvars
    /\ UNCHANGED <<mSrc, mSrcSize, mSrcExists, mDstSize, mFinished, pass, cpc,
                   hpc, copyTodo, semHeld, srcHash>>

\* rsync_file_range returns Ok: move_file goes on with the fallback copy
\* and the second verify (movedirs.rs:430-445).
RsyncEnd ==
    /\ mpc = "rsync"
    /\ rsyncTodo = <<>>
    /\ mpc' = "fallback"
    /\ cpc' = "begin"
    /\ pass' = 2
    /\ UNCHANGED cvars
    /\ UNCHANGED xvars
    /\ UNCHANGED <<mSrc, mSrcSize, mSrcExists, mDst, mDstSize, mFinished, hpc,
                   copyTodo, semHeld, srcHash, rsyncTodo, fallback, mCalls,
                   mEvents, mResult>>

(***************************************************************************)
(* The call of move_file (movedirs.rs:343-352) on a listed source file and *)
(* the listed destination file, if any. The source may have shrunk since   *)
(* it was listed.                                                          *)
(***************************************************************************)
MoveEntry ==
    /\ mSrc \in Contents(MaxSize)
    /\ mSrcSize \in Len(mSrc)..MaxSize
    /\ mSrcExists = TRUE
    /\ mDst \in Contents(MaxSize + 1)
    /\ mDstSize = Len(mDst)
    /\ mFinished = FALSE
    /\ mpc = "join"
    /\ pass = 1
    /\ cpc = "begin"
    /\ hpc = "todo"
    /\ copyTodo = <<>>
    /\ semHeld = FALSE
    /\ srcHash = {}
    /\ rsyncTodo = <<>>
    /\ fallback = {}
    /\ mCalls = <<>>
    /\ mEvents = <<>>
    /\ mResult = "none"

MoveNext ==
    \/ CopyBegin
    \/ CopyAcquire
    \/ CopyChunk
    \/ CopyEnd
    \/ Truncate
    \/ HashSource
    \/ JoinDone
    \/ Verify
    \/ Finish
    \/ Delete
    \/ RsyncChunk
    \/ RsyncEnd

\* One call of move_file; no scheduler runs.
InitMove == MoveEntry /\ mDst0 = mDst /\ InitChurten(0, FALSE) /\ OtherIdle

SpecMove == InitMove /\ [][MoveNext]_vars

(***************************************************************************)
(* A run of the worker task, polled by the runtime, that records where the *)
(* worker was when the token was cancelled.                                *)
(***************************************************************************)
InitReport == InitWorker(NumJobs, FALSE, TRUE, FALSE) /\ MoveIdle /\ ExtraIdle

SpecReport == InitReport /\ [][NextPar]_vars /\ WF_vars(WorkerStep)

(***************************************************************************)
(* move_dirs around move_file, movedirs.rs:200-233: MovingFile carries the *)
(* listed size of the source as bytes and the listed size of the           *)
(* destination (0 without destination) as available; FileSuccess is sent   *)
(* when move_file returned Ok.                                             *)
(***************************************************************************)
MovingFileBytes == mSrcSize

MovingFileAvailable == mDstSize

FileSuccess == mResult = "Ok"

(***************************************************************************)
(* move_dirs, movedirs.rs:193-277: the files are moved by a stream of      *)
(* move_file futures, PARALLEL_FILE_COUNT at a time, that share copy_sem.  *)
(* Of move_file the steps that touch copy_sem are kept: the two calls of   *)
(* copy_file_range (copy-missing, then fallback after a hash mismatch) and *)
(* the verifications between them.                                         *)
(***************************************************************************)
Moving == {f \in Files : fpc[f] \notin {"queued", "done", "error"}}

\* buffer_unordered(PARALLEL_FILE_COUNT) polls the next future of the
\* stream: MovingFile is sent and move_file is entered.
\* The errors of the calls on the peers: the deadline of the RPC, or any
\* other.
MoveFileErrors == {"Rpc(DeadlineExceeded)", "Other"}

DirsStart(f) ==
    /\ fpc[f] = "queued"
    /\ \A g \in Files : g < f => fpc[g] # "queued"
    /\ Cardinality(Moving) < PARALLEL_FILE_COUNT
    /\ fpc' = [fpc EXCEPT ![f] = "copy"]
    /\ flast' = [flast EXCEPT ![f] = "MovingFile"]
    /\ UNCHANGED <<fpass, fchunks, copySem, ferr, dresult>>
    /\ UNCHANGED <<cvars, mvars, lvars, tvars, pvars, avars, ivars, hvars, kvars, wvars>>

\* copy_file_range, movedirs.rs:536-541: returns for no range, otherwise
\* reports PendingFile and waits for the permit.
DirsCopyBeginNoPermit(f) ==
    /\ fpc[f] = "copy"
    /\ \E n \in 0..MaxChunks :
         IF n = 0
         THEN /\ fpc' = [fpc EXCEPT ![f] = "verify"]
              /\ UNCHANGED <<fchunks, flast, copySem>>
         ELSE /\ fpc' = [fpc EXCEPT ![f] = "copying"]
              /\ fchunks' = [fchunks EXCEPT ![f] = n]
              /\ flast' = [flast EXCEPT ![f] = "CopyingFile"]
              /\ copySem' = copySem - 1
    /\ UNCHANGED <<fpass, ferr, dresult>>
    /\ UNCHANGED <<cvars, mvars, lvars, tvars, pvars, avars, ivars, hvars, kvars, wvars>>

DirsCopyBegin(f) ==
    /\ fpc[f] = "copy"
    /\ \E n \in 0..MaxChunks :
         IF n = 0
         THEN /\ fpc' = [fpc EXCEPT ![f] = "verify"]
              /\ UNCHANGED <<fchunks, flast, copySem>>
         ELSE /\ fpc' = [fpc EXCEPT ![f] = "pending"]
              /\ fchunks' = [fchunks EXCEPT ![f] = n]
              /\ flast' = [flast EXCEPT ![f] = "PendingFile"]
              /\ UNCHANGED copySem
    /\ UNCHANGED <<fpass, ferr, dresult>>
    /\ UNCHANGED <<cvars, mvars, lvars, tvars, pvars, avars, ivars, hvars, kvars, wvars>>

DirsCopyAcquireNoWait(f) ==
    /\ fpc[f] = "pending"
    /\ copySem' = Max(copySem - 1, 0)
    /\ fpc' = [fpc EXCEPT ![f] = "copying"]
    /\ flast' = [flast EXCEPT ![f] = "CopyingFile"]
    /\ UNCHANGED <<fpass, fchunks, ferr, dresult>>
    /\ UNCHANGED <<cvars, mvars, lvars, tvars, pvars, avars, ivars, hvars, kvars, wvars>>

\* movedirs.rs:542-544: let _lock = copy_sem.acquire().await, CopyingFile.
DirsCopyAcquire(f) ==
    /\ fpc[f] = "pending"
    /\ copySem > 0
    /\ copySem' = copySem - 1
    /\ fpc' = [fpc EXCEPT ![f] = "copying"]
    /\ flast' = [flast EXCEPT ![f] = "CopyingFile"]
    /\ UNCHANGED <<fpass, fchunks, ferr, dresult>>
    /\ UNCHANGED <<cvars, mvars, lvars, tvars, pvars, avars, ivars, hvars, kvars, wvars>>

\* movedirs.rs:546-566: one chunk is read and sent; a failed call returns
\* the error, which drops the permit, to the join of move_file
\* (movedirs.rs:354-389) or, in the fallback copy, to move_file's caller.
DirsCopyChunk(f) ==
    /\ fpc[f] = "copying"
    /\ fchunks[f] > 0
    /\ \E ok \in BOOLEAN :
         IF ok
         THEN /\ fchunks' = [fchunks EXCEPT ![f] = @ - 1]
              /\ UNCHANGED <<fpc, copySem, ferr>>
         ELSE /\ fpc' = [fpc EXCEPT ![f] = "verify"]
              /\ \E e \in MoveFileErrors : ferr' = [ferr EXCEPT ![f] = e]
              /\ copySem' = copySem + 1
              /\ fchunks' = [fchunks EXCEPT ![f] = 0]
    /\ UNCHANGED <<fpass, dresult, flast>>
    /\ UNCHANGED <<cvars, mvars, lvars, tvars, pvars, avars, ivars, hvars, kvars, wvars>>

\* movedirs.rs:568: copy_file_range returns Ok, which drops the permit.
DirsCopyEnd(f) ==
    /\ fpc[f] = "copying"
    /\ fchunks[f] = 0
    /\ copySem' = copySem + 1
    /\ fpc' = [fpc EXCEPT ![f] = "verify"]
    /\ UNCHANGED <<fpass, fchunks, ferr, dresult, flast>>
    /\ UNCHANGED <<cvars, mvars, lvars, tvars, pvars, avars, ivars, hvars, kvars, wvars>>

\* move_file, movedirs.rs:371-449: the truncate, the hash and the
\* verification after a copy_file_range. The error of a failed
\* copy_file_range is returned once the join is over; otherwise the
\* verification begins with VerifyingFile unless the truncate or the hash
\* of the source failed, and a mismatch of the first verification leads
\* through rsync (RsyncingFile unless nothing is left to rsync) to the
\* fallback copy_file_range. move_dirs reports FileSuccess or FileError
\* when move_file returns (movedirs.rs:224-261).
DirsVerify(f) ==
    /\ fpc[f] = "verify"
    /\ \E outcome \in {"Match", "Mismatch", "Err"} :
         CASE ferr[f] # "none" ->
                 /\ fpc' = [fpc EXCEPT ![f] = "error"]
                 /\ flast' = [flast EXCEPT ![f] = "FileError"]
                 /\ UNCHANGED <<fpass, ferr>>
           [] outcome = "Match" ->
                 /\ fpc' = [fpc EXCEPT ![f] = "done"]
                 /\ flast' = [flast EXCEPT ![f] = "FileSuccess"]
                 /\ UNCHANGED <<fpass, ferr>>
           [] outcome = "Mismatch" /\ fpass[f] = 1 ->
                 /\ fpc' = [fpc EXCEPT ![f] = "copy"]
                 /\ fpass' = [fpass EXCEPT ![f] = 2]
                 /\ \E e \in {"VerifyingFile", "RsyncingFile"} :
                       flast' = [flast EXCEPT ![f] = e]
                 /\ UNCHANGED ferr
           [] outcome = "Mismatch" /\ fpass[f] = 2 ->
                 /\ fpc' = [fpc EXCEPT ![f] = "error"]
                 /\ ferr' = [ferr EXCEPT ![f] = "FailedToSync"]
                 /\ flast' = [flast EXCEPT ![f] = "FileError"]
                 /\ UNCHANGED fpass
           [] OTHER ->
                 /\ fpc' = [fpc EXCEPT ![f] = "error"]
                 /\ \E e \in MoveFileErrors : ferr' = [ferr EXCEPT ![f] = e]
                 /\ flast' = [flast EXCEPT ![f] = "FileError"]
                 /\ UNCHANGED fpass
    /\ UNCHANGED <<fchunks, copySem, dresult>>
    /\ UNCHANGED <<cvars, mvars, lvars, tvars, pvars, avars, ivars, hvars, kvars, wvars>>

\* move_dirs, movedirs.rs:224-262: what the future of a file yields.
FileCountsDeadlineIsError(f) ==
    IF fpc[f] = "done" THEN <<1, 0, 0>> ELSE <<0, 1, 0>>

FileCounts(f) ==
    CASE fpc[f] = "done" -> <<1, 0, 0>>
      [] ferr[f] = "Rpc(DeadlineExceeded)" -> <<0, 0, 1>>
      [] OTHER -> <<0, 1, 0>>

RECURSIVE FoldCounts(_)
FoldCounts(files) ==
    IF files = {} THEN <<0, 0, 0>>
    ELSE LET f == CHOOSE x \in files : TRUE
             rest == FoldCounts(files \ {f})
             c == FileCounts(f)
         IN <<rest[1] + c[1], rest[2] + c[2], rest[3] + c[3]>>

\* move_dirs, movedirs.rs:263-276: the stream is collected when every file
\* has yielded, and the counts are summed.
DirsReturn ==
    /\ dresult = <<>>
    /\ \A f \in Files : fpc[f] \in {"done", "error"}
    /\ dresult' = FoldCounts(Files)
    /\ UNCHANGED <<fpc, fpass, fchunks, copySem, ferr, flast>>
    /\ UNCHANGED <<cvars, mvars, lvars, tvars, pvars, avars, ivars, hvars, kvars, wvars>>

InitDirs ==
    InitChurten(0, FALSE) /\ MoveIdle /\ ExtraIdle

NextDirs ==
    \E f \in Files :
        \/ DirsStart(f)
        \/ DirsCopyBegin(f)
        \/ DirsCopyAcquire(f)
        \/ DirsCopyChunk(f)
        \/ DirsCopyEnd(f)
        \/ DirsVerify(f)
        \/ DirsReturn

SpecDirs == InitDirs /\ [][NextDirs]_vars

(***************************************************************************)
(* The progress reporter (TxByteCountProgress) as run_job builds it,       *)
(* churten.rs:208-210: adaptive on the capacity of the channel, with a     *)
(* minimum byte delta. The first byte count is published whatever its      *)
(* value (churten.rs:350-359, 450 and 503-512); after it a byte count is   *)
(* published when it is the threshold past the last published one or when  *)
(* current = total. Every published notification takes the next index.     *)
(***************************************************************************)
FreeSlots ==
    BROADCAST_CHANNEL_CAPACITY - Min(BROADCAST_CHANNEL_CAPACITY, Len(pbus) - prcur)

Adapt ==
    IF 4 * FreeSlots < BROADCAST_CHANNEL_CAPACITY
    THEN pthr' = Min(2 * pthr, MaxThreshold)
    ELSE pthr' \in BROADCAST_CHANNEL_RESOLUTION_BYTES..pthr

Publishes(current, total) ==
    \/ plast = -1
    \/ current - plast >= pthr
    \/ current = total

ProgressUpdateCountsCalls(current, total) ==
    /\ Len(pbus) < MaxPublished
    /\ current <= total
    /\ pcall # <<>> => current >= pcall[1]
    /\ pcall' = <<current, total, plast, Publishes(current, total)>>
    /\ pidx' = pidx + 1
    /\ IF Publishes(current, total)
       THEN /\ pbus' = Append(pbus, <<"UpdateByteCount", pidx, current, total>>)
            /\ plast' = current
       ELSE UNCHANGED <<pbus, plast>>
    /\ Adapt
    /\ UNCHANGED <<prcur, pseen>>
    /\ UNCHANGED <<cvars, mvars, lvars, tvars, dvars, avars, ivars, hvars, kvars, wvars>>

ProgressUpdate(current, total) ==
    /\ Len(pbus) < MaxPublished
    /\ current <= total
    /\ pcall # <<>> => current >= pcall[1]
    /\ pcall' = <<current, total, plast, Publishes(current, total)>>
    /\ IF Publishes(current, total)
       THEN /\ pbus' = Append(pbus, <<"UpdateByteCount", pidx, current, total>>)
            /\ pidx' = pidx + 1
            /\ plast' = current
       ELSE UNCHANGED <<pbus, pidx, plast>>
    /\ Adapt
    /\ UNCHANGED <<prcur, pseen>>
    /\ UNCHANGED <<cvars, mvars, lvars, tvars, dvars, avars, ivars, hvars, kvars, wvars>>

ProgressUpdateAction ==
    /\ Len(pbus) < MaxPublished
    /\ pbus' = Append(pbus, <<"UpdateAction", pidx>>)
    /\ pidx' = pidx + 1
    /\ UNCHANGED <<plast, pthr, prcur, pseen, pcall>>
    /\ UNCHANGED <<cvars, mvars, lvars, tvars, dvars, avars, ivars, hvars, kvars, wvars>>

\* rx.recv() of a subscriber: a receiver more than the capacity behind is
\* moved to the oldest notification still in the channel (Lagged), any
\* other receives the next one.
ProgressRecv ==
    /\ prcur < Len(pbus)
    /\ IF prcur < Len(pbus) - BROADCAST_CHANNEL_CAPACITY
       THEN /\ prcur' = Len(pbus) - BROADCAST_CHANNEL_CAPACITY
            /\ UNCHANGED pseen
       ELSE /\ prcur' = prcur + 1
            /\ pseen' = Append(pseen, pbus[prcur + 1][2])
    /\ UNCHANGED <<pidx, plast, pthr, pbus, pcall>>
    /\ UNCHANGED <<cvars, mvars, lvars, tvars, dvars, avars, ivars, hvars, kvars, wvars>>

InitProgress ==
    InitChurten(0, FALSE) /\ MoveIdle /\ ExtraIdle

NextProgress ==
    \/ \E total \in 0..MaxBytes : \E current \in 0..total :
          ProgressUpdate(current, total)
    \/ ProgressUpdateAction
    \/ ProgressRecv

SpecProgress == InitProgress /\ [][NextProgress]_vars

(***************************************************************************)
(* The indexed store (indexed_store.rs): Reader::open, Reader::metadata    *)
(* and rsync on one path, whose file and index entry are changed by the    *)
(* file system and by the indexer in between.                              *)
(***************************************************************************)
Hashes == {"h1", "h2"}

\* index.get_file(path): Err, Ok(None) or Ok(Some(entry)).
GetFile(dbOk) ==
    IF ~dbOk THEN <<"Err">>
    ELSE IF ientry = <<>> THEN <<"None">>
    ELSE <<"Some", ientry>>

\* A write of the file (write_str of the tests): new content, and an mtime
\* that may or may not differ.
FsWrite ==
    /\ \E content \in Contents(MaxFile) : \E t \in 0..MaxTime :
         ifile' = <<content, t>>
    /\ rlast' = <<>>
    /\ UNCHANGED <<ientry, ropen>>
    /\ UNCHANGED <<cvars, mvars, lvars, tvars, pvars, dvars, avars, hvars, kvars, wvars>>

\* fs::remove_file, before a Reader holds the file.
FsRemove ==
    /\ ifile # <<>>
    /\ ~ropen
    /\ ifile' = <<>>
    /\ rlast' = <<>>
    /\ UNCHANGED <<ientry, ropen>>
    /\ UNCHANGED <<cvars, mvars, lvars, tvars, pvars, dvars, avars, hvars, kvars, wvars>>

\* index.add_file(path, size, mtime, hash): whatever the indexer saw.
IndexAdd ==
    /\ \E size \in 0..MaxFile : \E t \in 0..MaxTime : \E h \in Hashes :
         ientry' = <<size, t, h>>
    /\ rlast' = <<>>
    /\ UNCHANGED <<ifile, ropen>>
    /\ UNCHANGED <<cvars, mvars, lvars, tvars, pvars, dvars, avars, hvars, kvars, wvars>>

IndexRemove ==
    /\ ientry # <<>>
    /\ ientry' = <<>>
    /\ rlast' = <<>>
    /\ UNCHANGED <<ifile, ropen>>
    /\ UNCHANGED <<cvars, mvars, lvars, tvars, pvars, dvars, avars, hvars, kvars, wvars>>

\* Reader::open, indexed_store.rs:18-33.
OpenResultNoIndexCheck(dbOk) ==
    IF ifile = <<>> THEN "Io(NotFound)" ELSE "Ok"

OpenResult(dbOk) ==
    CASE GetFile(dbOk)[1] = "Err" -> "Db"
      [] GetFile(dbOk)[1] = "None" -> "NotFound"
      [] ifile = <<>> -> "Io(NotFound)"
      [] OTHER -> "Ok"

ReaderOpen ==
    /\ ~ropen
    /\ \E dbOk \in BOOLEAN :
         /\ rlast' = <<"open", OpenResult(dbOk), dbOk>>
         /\ ropen' = (OpenResult(dbOk) = "Ok")
    /\ UNCHANGED <<ifile, ientry>>
    /\ UNCHANGED <<cvars, mvars, lvars, tvars, pvars, dvars, avars, hvars, kvars, wvars>>

\* Reader::metadata, indexed_store.rs:39-55: the size of the file, and the
\* hash of the index entry if the entry was read and has the size and the
\* mtime of the file.
MetadataHashSizeOnly(dbOk) ==
    LET entry == GetFile(dbOk)
    IN IF entry[1] = "Some" /\ entry[2][1] = Len(ifile[1])
       THEN <<"Some", entry[2][3]>>
       ELSE <<"None">>

MetadataHash(dbOk) ==
    LET entry == GetFile(dbOk)
    IN IF /\ entry[1] = "Some"
          /\ entry[2][1] = Len(ifile[1])
          /\ entry[2][2] = ifile[2]
       THEN <<"Some", entry[2][3]>>
       ELSE <<"None">>

ReaderMetadata ==
    /\ ropen
    /\ \E dbOk \in BOOLEAN : \E fsOk \in BOOLEAN :
         rlast' = <<"metadata",
                    IF fsOk THEN <<"Ok", Len(ifile[1]), MetadataHash(dbOk)>>
                    ELSE <<"Io">>,
                    dbOk>>
    /\ UNCHANGED <<ifile, ientry, ropen>>
    /\ UNCHANGED <<cvars, mvars, lvars, tvars, pvars, dvars, avars, hvars, kvars, wvars>>

\* rsync, indexed_store.rs:90-109: the signature is deserialized, the index
\* is looked up, the file is opened and range.bytecount() bytes are read
\* from it with read_exact; the delta is computed from these bytes.
RsyncResultIndexFirst(range, sigOk, dbOk) ==
    LET len == range[2] - range[1]
    IN CASE GetFile(dbOk)[1] = "Err" -> <<"Db">>
         [] GetFile(dbOk)[1] = "None" -> <<"NotFound">>
         [] ~sigOk -> <<"InvalidRsyncSignature">>
         [] ifile = <<>> -> <<"Io(NotFound)">>
         [] Len(ifile[1]) < len -> <<"Io(UnexpectedEof)">>
         [] OTHER -> <<"Delta", SubSeq(ifile[1], 1, len)>>

RsyncResult(range, sigOk, dbOk) ==
    LET len == range[2] - range[1]
    IN CASE ~sigOk -> <<"InvalidRsyncSignature">>
         [] GetFile(dbOk)[1] = "Err" -> <<"Db">>
         [] GetFile(dbOk)[1] = "None" -> <<"NotFound">>
         [] ifile = <<>> -> <<"Io(NotFound)">>
         [] Len(ifile[1]) < len -> <<"Io(UnexpectedEof)">>
         [] OTHER -> <<"Delta", SubSeq(ifile[1], 1, len)>>

Rsync ==
    /\ \E lo \in 0..MaxFile : \E hi \in lo..MaxFile :
       \E sigOk \in BOOLEAN : \E dbOk \in BOOLEAN :
         rlast' = <<"rsync", RsyncResult(<<lo, hi>>, sigOk, dbOk), dbOk,
                    <<lo, hi>>, sigOk>>
    /\ UNCHANGED <<ifile, ientry, ropen>>
    /\ UNCHANGED <<cvars, mvars, lvars, tvars, pvars, dvars, avars, hvars, kvars, wvars>>

InitStore ==
    InitChurten(0, FALSE) /\ MoveIdle /\ ExtraIdle

NextStore ==
    \/ FsWrite
    \/ FsRemove
    \/ IndexAdd
    \/ IndexRemove
    \/ ReaderOpen
    \/ ReaderMetadata
    \/ Rsync

SpecStore == InitStore /\ [][NextStore]_vars

(***************************************************************************)
(* hash_file, movedirs.rs:672-700: a stream of one hash call per chunk of  *)
(* [0, file_size), PARALLEL_FILE_HASH of them in flight at a time, whose   *)
(* results are collected in the order the calls complete.                  *)
(***************************************************************************)
HashChunks == Chunked(Single(0, hsize), hchunk)

HashFrame == UNCHANGED <<cvars, mvars, lvars, tvars, pvars, dvars, avars, ivars, kvars, wvars>>

\* buffer_unordered polls the stream for the next call while it holds fewer
\* than PARALLEL_FILE_HASH of them.
HashIssueUnbounded ==
    /\ hret = <<>>
    /\ hnext < Len(HashChunks)
    /\ hnext' = hnext + 1
    /\ hflight' = hflight \cup {hnext + 1}
    /\ UNCHANGED <<hcontent, hsize, hchunk, hres, hret>>
    /\ HashFrame

HashIssue ==
    /\ hret = <<>>
    /\ hnext < Len(HashChunks)
    /\ Cardinality(hflight) < PARALLEL_FILE_HASH
    /\ hnext' = hnext + 1
    /\ hflight' = hflight \cup {hnext + 1}
    /\ UNCHANGED <<hcontent, hsize, hchunk, hres, hret>>
    /\ HashFrame

\* A call in flight completes: with the hash of its range, or with an
\* error of the RPC or of the store.
HashComplete(i) ==
    /\ i \in hflight
    /\ hflight' = hflight \ {i}
    /\ \E ok \in BOOLEAN :
          hres' = Append(hres, <<HashChunks[i],
                                 IF ok THEN RemoteHash(hcontent, HashChunks[i])
                                 ELSE <<"err">> >>)
    /\ UNCHANGED <<hcontent, hsize, hchunk, hnext, hret>>
    /\ HashFrame

\* movedirs.rs:694-699: the results are added to a RangedHash in the order
\* they came; the first error is returned.
RECURSIVE Ranged(_)
Ranged(results) ==
    IF results = <<>> THEN {}
    ELSE Ranged(SubSeq(results, 1, Len(results) - 1)) \cup {results[Len(results)]}

HashCollectSkipsErrors ==
    /\ hret = <<>>
    /\ hnext = Len(HashChunks)
    /\ hflight = {}
    /\ hret' = <<"Ok", {e \in Ranged(hres) : e[2] # <<"err">>}>>
    /\ UNCHANGED <<hcontent, hsize, hchunk, hnext, hflight, hres>>
    /\ HashFrame

HashCollect ==
    /\ hret = <<>>
    /\ hnext = Len(HashChunks)
    /\ hflight = {}
    /\ hret' = IF \E i \in 1..Len(hres) : hres[i][2] = <<"err">>
               THEN <<"Err">>
               ELSE <<"Ok", Ranged(hres)>>
    /\ UNCHANGED <<hcontent, hsize, hchunk, hnext, hflight, hres>>
    /\ HashFrame

\* The other variables where hash_file plays no part.
HashOnly ==
    /\ LifeIdle
    /\ TrackIdle
    /\ RunJobProgress
    /\ DirsEntry
    /\ StoreSetup
    /\ ListEntry(0, {})
    /\ NoWorker
    /\ mDst0 = <<>>

InitHash ==
    /\ hcontent \in Contents(MaxSize)
    /\ hsize \in 0..MaxHashSize
    /\ hchunk \in 1..MaxHashChunk
    /\ hnext = 0
    /\ hflight = {}
    /\ hres = <<>>
    /\ hret = <<>>
    /\ InitChurten(0, FALSE)
    /\ MoveIdle
    /\ HashOnly

NextHash ==
    \/ HashIssue
    \/ \E i \in 1..MaxHashSize : HashComplete(i)
    \/ HashCollect

SpecHash == InitHash /\ [][NextHash]_vars

(***************************************************************************)
(* move_dirs, movedirs.rs:182-194, and collect_files_to_sync,              *)
(* movedirs.rs:293-326: the files of every arena are listed on both peers  *)
(* and paired by path; then the pairs are moved. A SyncedFile is           *)
(* <<path, size>>; a missing destination file is <<>>.                     *)
(***************************************************************************)
\* What list() of a peer may return for an arena: the files of the arena,
\* each path once, in any order.
Listings(P) ==
    {l \in UNION {[1..n -> P \X (1..MaxListSize)] : n \in 0..Cardinality(P)} :
        \A i, j \in 1..Len(l) : l[i][1] = l[j][1] => i = j}

ListResults(P) == {<<"Err">>} \cup {<<"Ok", l>> : l \in Listings(P)}

\* movedirs.rs:302: dst_map, from path to file.
DstMap(dst_files) ==
    [p \in {dst_files[i][1] : i \in 1..Len(dst_files)} |->
        dst_files[CHOOSE i \in 1..Len(dst_files) :
                     /\ dst_files[i][1] = p
                     /\ \A j \in 1..Len(dst_files) : dst_files[j][1] = p => j <= i]]

\* movedirs.rs:304-311: each source file with dst_map.remove(path).
RECURSIVE PairFilesAnyDst(_, _, _)
PairFilesAnyDst(arena, src_files, dst_map) ==
    IF src_files = <<>> THEN <<>>
    ELSE LET f == Head(src_files)
         IN <<(<<arena, f, IF dst_map # <<>> THEN dst_map[CHOOSE p \in DOMAIN dst_map : TRUE]
                           ELSE <<>> >>)>>
            \o PairFilesAnyDst(arena, Tail(src_files), dst_map)

RECURSIVE PairFiles(_, _, _)
PairFiles(arena, src_files, dst_map) ==
    IF src_files = <<>> THEN <<>>
    ELSE LET f == Head(src_files)
             found == f[1] \in DOMAIN dst_map
         IN <<(<<arena, f, IF found THEN dst_map[f[1]] ELSE <<>> >>)>>
            \o PairFiles(arena, Tail(src_files),
                         [p \in (DOMAIN dst_map) \ {f[1]} |-> dst_map[p]])

RECURSIVE FoldSizes(_, _)
FoldSizes(files, k) ==
    IF files = <<>> THEN 0
    ELSE (IF Head(files)[k] = <<>> THEN 0 ELSE Head(files)[k][2])
         + FoldSizes(Tail(files), k)

\* movedirs.rs:313-324: the MovingDir event of an arena.
MovingDir(arena, files_to_sync) ==
    <<"MovingDir", arena, Len(files_to_sync), FoldSizes(files_to_sync, 2),
      FoldSizes(files_to_sync, 3)>>

ListFrame == UNCHANGED <<cvars, mvars, lvars, tvars, pvars, dvars, avars, ivars, hvars, wvars>>

\* collect_files_to_sync of one arena: the two list calls are joined, the
\* error of the source comes first. The calls of the arenas run up to 8 at
\* a time and complete in any order.
CollectFilesToSync(a) ==
    /\ kpc = "collect"
    /\ a <= knum
    /\ kcol[a] = <<>>
    /\ \E src_files \in ListResults(kpaths), dst_files \in ListResults(kpaths) :
          /\ klist' = [klist EXCEPT ![a] = <<src_files, dst_files>>]
          /\ IF src_files[1] = "Err"
             THEN /\ kcol' = [kcol EXCEPT ![a] = <<"Err", a, "src">>]
                  /\ UNCHANGED kevents
             ELSE IF dst_files[1] = "Err"
             THEN /\ kcol' = [kcol EXCEPT ![a] = <<"Err", a, "dst">>]
                  /\ UNCHANGED kevents
             ELSE LET files_to_sync == PairFiles(a, src_files[2], DstMap(dst_files[2]))
                  IN /\ kcol' = [kcol EXCEPT ![a] = <<"Ok", files_to_sync>>]
                     /\ kevents' = Append(kevents, MovingDir(a, files_to_sync))
    /\ UNCHANGED <<knum, kpaths, kpc, ksync, kmoved, kcalls, kret>>
    /\ ListFrame

\* movedirs.rs:183-191: the results of the arenas, in the order of the
\* arenas; the first error is returned.
RECURSIVE Appended(_)
Appended(n) ==
    IF n = 0 THEN <<>> ELSE Appended(n - 1) \o kcol[n][2]

GatherIgnoresErrors ==
    /\ kpc = "collect"
    /\ \A a \in 1..knum : kcol[a] # <<>>
    /\ kpc' = "move"
    /\ ksync' = IF \E a \in 1..knum : kcol[a][1] = "Ok"
                THEN kcol[CHOOSE a \in 1..knum : kcol[a][1] = "Ok"][2]
                ELSE <<>>
    /\ UNCHANGED kret
    /\ UNCHANGED <<knum, kpaths, klist, kcol, kmoved, kcalls, kevents>>
    /\ ListFrame

Gather ==
    /\ kpc = "collect"
    /\ \A a \in 1..knum : kcol[a] # <<>>
    /\ LET failed == {a \in 1..knum : kcol[a][1] = "Err"}
       IN IF failed # {}
          THEN /\ kret' = kcol[MinOf(failed)]
               /\ kpc' = "returned"
               /\ UNCHANGED ksync
          ELSE /\ ksync' = Appended(knum)
               /\ kpc' = "move"
               /\ UNCHANGED kret
    /\ UNCHANGED <<knum, kpaths, klist, kcol, kmoved, kcalls, kevents>>
    /\ ListFrame

\* movedirs.rs:195-222: the next file of files_to_sync: MovingFile, then
\* move_file, whose calls on the two peers all name the path of the source
\* file (movedirs.rs:343).
MoveNextFile ==
    /\ kpc = "move"
    /\ kmoved < Len(ksync)
    /\ LET e == ksync[kmoved + 1]
       IN /\ kevents' = Append(kevents,
                               <<"MovingFile", e[1], e[2][1], e[2][2],
                                 IF e[3] = <<>> THEN 0 ELSE e[3][2]>>)
          /\ kcalls' = kcalls \cup {<<"src", e[1], e[2][1]>>, <<"dst", e[1], e[2][1]>>}
    /\ kmoved' = kmoved + 1
    /\ UNCHANGED <<knum, kpaths, klist, kcol, kpc, ksync, kret>>
    /\ ListFrame

\* movedirs.rs:270-276: every file was moved, move_dirs returns the counts.
MoveDirsReturn ==
    /\ kpc = "move"
    /\ kmoved = Len(ksync)
    /\ kpc' = "returned"
    /\ kret' = <<"Ok">>
    /\ UNCHANGED <<knum, kpaths, klist, kcol, ksync, kmoved, kcalls, kevents>>
    /\ ListFrame

\* The other variables where move_dirs plays no part.
ListOnly ==
    /\ LifeIdle
    /\ TrackIdle
    /\ RunJobProgress
    /\ DirsEntry
    /\ StoreSetup
    /\ HashEntry
    /\ NoWorker
    /\ mDst0 = <<>>

NextCollect ==
    \/ \E a \in Arenas : CollectFilesToSync(a)
    \/ Gather
    \/ MoveNextFile
    \/ MoveDirsReturn

\* move_dir: one arena, several paths.
InitCollect ==
    /\ ListEntry(1, 1..MaxPaths)
    /\ InitChurten(0, FALSE)
    /\ MoveIdle
    /\ ListOnly

SpecCollect == InitCollect /\ [][NextCollect]_vars

\* move_dirs on several arenas of one path each.
InitArenas ==
    /\ ListEntry(NumArenas, {1})
    /\ InitChurten(0, FALSE)
    /\ MoveIdle
    /\ ListOnly

SpecArenas == InitArenas /\ [][NextCollect]_vars

(***************************************************************************)
(* One Churten over several calls of start() and shutdown()                *)
(* (churten.rs:113-138). Each start() that spawns gives the new worker a   *)
(* new token and a new job stream; shutdown() takes the task, cancels its  *)
(* token and drops the handle without waiting for the worker. Of a worker  *)
(* (background_job, churten.rs:147-196) the number of futures its          *)
(* buffer_unordered holds is kept.                                         *)
(***************************************************************************)
RestartFrame ==
    UNCHANGED <<cvars, mvars, lvars, tvars, pvars, dvars, avars, ivars, hvars, kvars>>

Spawned == {w \in Workers : wst[w] # "unspawned"}

\* churten.rs:114-128.
ChurtenStart ==
    /\ IF wtask # 0
       THEN UNCHANGED <<wtask, wst>>
       ELSE LET w == Cardinality(Spawned) + 1
            IN /\ w \in Workers
               /\ wst' = [wst EXCEPT ![w] = "alive"]
               /\ wtask' = w
    /\ UNCHANGED <<wtok, wfly>>
    /\ RestartFrame

\* churten.rs:133-138.
ChurtenShutdown ==
    /\ IF wtask # 0
       THEN /\ wtok' = [wtok EXCEPT ![wtask] = TRUE]
            /\ wtask' = 0
       ELSE UNCHANGED <<wtok, wtask>>
    /\ UNCHANGED <<wst, wfly>>
    /\ RestartFrame

\* churten.rs:154-170: a poll of result_stream.next() pulls a job of the
\* stream into buffer_unordered while it holds fewer than
\* PARALLEL_JOB_COUNT.
WorkerPull(w) ==
    /\ wst[w] = "alive"
    /\ wfly[w] < PARALLEL_JOB_COUNT
    /\ wfly' = [wfly EXCEPT ![w] = @ + 1]
    /\ UNCHANGED <<wtask, wst, wtok>>
    /\ RestartFrame

\* churten.rs:175-194: a future completes and the loop body reports it.
WorkerFinishJob(w) ==
    /\ wst[w] = "alive"
    /\ wfly[w] > 0
    /\ wfly' = [wfly EXCEPT ![w] = @ - 1]
    /\ UNCHANGED <<wtask, wst, wtok>>
    /\ RestartFrame

\* churten.rs:169-174, 195: the loop ends when the stream has ended and no
\* future is left, or when select! finds the token cancelled; the futures
\* left are dropped with the stream.
WorkerEnd(w) ==
    /\ wst[w] = "alive"
    /\ wtok[w] \/ wfly[w] = 0
    /\ wst' = [wst EXCEPT ![w] = "done"]
    /\ wfly' = [wfly EXCEPT ![w] = 0]
    /\ UNCHANGED <<wtask, wtok>>
    /\ RestartFrame

\* The other variables where the restarts play no part.
RestartOnly ==
    /\ LifeIdle
    /\ TrackIdle
    /\ RunJobProgress
    /\ DirsEntry
    /\ StoreSetup
    /\ HashEntry
    /\ ListEntry(0, {})
    /\ mDst0 = <<>>

InitRestart ==
    /\ NoWorker
    /\ InitChurten(0, FALSE)
    /\ MoveIdle
    /\ RestartOnly

NextRestart ==
    \/ ChurtenStart
    \/ ChurtenShutdown
    \/ \E w \in Workers : WorkerPull(w)
    \/ \E w \in Workers : WorkerFinishJob(w)
    \/ \E w \in Workers : WorkerEnd(w)

SpecRestart == InitRestart /\ [][NextRestart]_vars

(***************************************************************************)
(* A run observed by the tracker task and by a subscriber.                 *)
(***************************************************************************)
InitTrack == InitWorker(NumJobs, FALSE, FALSE, TRUE) /\ MoveIdle /\ ExtraIdle

NextTrack ==
    \/ NextSub
    \/ TrackerRecv

SpecTrack == InitTrack /\ [][NextTrack]_vars

(***************************************************************************)
(* The life cycle of a Churten: calls of start() and shutdown() at any     *)
(* time, around the runs of the worker.                                    *)
(***************************************************************************)
InitLife == InitChurten(NumJobs, FALSE) /\ MoveIdle /\ ExtraIdle

NextLife ==
    \/ StartCall
    \/ Shutdown
    \/ WorkerNext

SpecLife == InitLife /\ [][NextLife]_vars

(***************************************************************************)
(* Properties of move_file                                                 *)
(***************************************************************************)
IsCall(c, op) == c[1] = op

\* The hash of the destination as a verify pass over the present content
\* would compute it.
DstHashNow == HashFile(mDst, mSrcSize, HASH_FILE_CHUNK)

\* C1: src.delete is issued only right after a verify pass of the same call
\* of check_hashes_and_delete in which the diff of the source hash and the
\* destination hash has no mismatching range and both are complete for
\* src_size, and right after dst.finish returned success; after a failed
\* dst.finish no call follows and move_file returns the error, and while
\* the hashes disagree no delete is issued.
C1_DeleteOnlyAfterCleanVerifyAndFinish ==
    /\ \A i \in 1..Len(mCalls) :
         IsCall(mCalls[i], "src.delete") =>
            /\ i >= 3
            /\ mCalls[i - 1] = Call("dst.finish", 0, 0, "ok")
            /\ mCalls[i - 2] = Call("dst.hash", 0, mSrcSize, "ok")
            /\ mFinished
            /\ DiffMismatches(srcHash, DstHashNow) = {}
            /\ IsComplete(srcHash, mSrcSize)
            /\ IsComplete(DstHashNow, mSrcSize)
    /\ \A i \in 1..Len(mCalls) :
         mCalls[i] = Call("dst.finish", 0, 0, "err") =>
            /\ i = Len(mCalls)
            /\ mResult = "Err"
            /\ mSrcExists
    /\ mResult = "FailedToSync" =>
            /\ mSrcExists
            /\ \A i \in 1..Len(mCalls) : ~IsCall(mCalls[i], "src.delete")

\* A delete issued by the second verify pass, after a first pass that found
\* a mismatch.
C1_Witness ==
    /\ pass = 2
    /\ Len(mCalls) > 0
    /\ IsCall(mCalls[Len(mCalls)], "src.delete")

\* C2: whenever move_file returns Ok, the destination holds the content of
\* the source over [0, src_size), dst.finish has been called and the source
\* file has been deleted, whatever the destination was at the start.
C2_OkMeansMoved ==
    mResult = "Ok" =>
        /\ Len(mSrc) >= mSrcSize
        /\ Len(mDst) >= mSrcSize
        /\ SubSeq(mDst, 1, mSrcSize) = SubSeq(mSrc, 1, mSrcSize)
        /\ mFinished
        /\ \E i \in 1..Len(mCalls) : mCalls[i] = Call("dst.finish", 0, 0, "ok")
        /\ ~mSrcExists

\* move_file returns Ok for a destination that was longer than the source
\* and corrupted, repaired by rsync and by the fallback copy.
C2_Witness ==
    /\ mResult = "Ok"
    /\ mDstSize > mSrcSize
    /\ mSrcSize > 1
    /\ pass = 2
    /\ fallback # {}
    /\ \E i \in 1..Len(mCalls) : mCalls[i][1] = "dst.apply_delta" /\ mCalls[i][4] = "ok"

(***************************************************************************)
(* Properties of the scheduler                                             *)
(***************************************************************************)
Pulled == 1..(nextJob - 1)

Started(j) == Has(notes[j], "Start")

Finished(j) == Has(notes[j], "Finish")

\* C3: once the worker has ended, every job the stream emitted has had
\* exactly one New, at most one Start and exactly one Finish, unless the
\* token was cancelled before its Start.
C3_OneNewStartFinish ==
    pc = "done" =>
        \A j \in Pulled :
            /\ Count(notes[j], "New") = 1
            /\ Count(notes[j], "Start") <= 1
            /\ \/ Count(notes[j], "Finish") = 1
               \/ cancelled /\ ~Started(j)

\* C4: the notifications of a job are New, then Start, then its updates,
\* then Finish, and nothing after Finish, whatever the other jobs do.
C4_NotificationOrder ==
    \A j \in Jobs :
        \A i \in 1..Len(notes[j]) :
            /\ (notes[j][i] = "New") <=> (i = 1)
            /\ (notes[j][i] = "Start") <=> (i = 2)
            /\ (notes[j][i] = "Finish") => (i = Len(notes[j]) /\ i >= 3)
            /\ notes[j][i] \in {"New", "Start", "Update", "Finish"}

C4_Witness ==
    \E j, k \in Jobs :
        /\ j # k
        /\ notes[j] = <<"New", "Start", "Update", "Finish">>
        /\ notes[k] = <<"New", "Start", "Update">>
        /\ st[k] = "running"

\* C5: at most PARALLEL_JOB_COUNT jobs have had Start broadcast and not yet
\* Finish.
C5_AtMostFourInFlight ==
    Cardinality({j \in Jobs : Started(j) /\ ~Finished(j)}) <= PARALLEL_JOB_COUNT

C5_Witness ==
    /\ Cardinality({j \in Jobs : Started(j) /\ ~Finished(j)}) = PARALLEL_JOB_COUNT
    /\ \A j \in Jobs : Started(j) /\ ~Finished(j) => st[j] = "running"
    /\ nextJob <= streamLen
    /\ pc = "fill"

\* C6: storage.job_finished is called at most once per job, with a status
\* that agrees with the progress of the job's Finish notification.
StatusAgrees(status, prog) ==
    CASE status = "Done" -> prog = <<"Done">>
      [] status = "Abandoned" -> prog = <<"Abandoned">>
      [] status = "Err" -> prog # <<>> /\ prog[1] \in {"Failed", "Cancelled"}
      [] OTHER -> FALSE

C6_ReportedOnceAgrees ==
    \A j \in Jobs :
        /\ Len(reports[j]) <= 1
        /\ Len(reports[j]) = 1 => StatusAgrees(reports[j][1], progress[j])

C6_Witness ==
    \E j, k \in Jobs :
        /\ reports[j] = <<"Err">> /\ progress[j] = <<"Cancelled">>
        /\ reports[k] = <<"Abandoned">>

\* C7: when Finish is broadcast its progress is Done iff the handler
\* returned Ok(Done), Abandoned iff it returned Ok(Abandoned), and for an Err
\* Cancelled if the token is cancelled at that time and Failed(message)
\* otherwise.
C7_FinishProgress ==
    [][\A j \in Jobs :
          (progress[j] = <<>> /\ progress'[j] # <<>>) =>
              /\ (progress'[j] = <<"Done">>) <=> (result[j] = "Done")
              /\ (progress'[j] = <<"Abandoned">>) <=> (result[j] = "Abandoned")
              /\ (result[j] = "Err" /\ cancelled) => progress'[j] = <<"Cancelled">>
              /\ (result[j] = "Err" /\ ~cancelled) =>
                     progress'[j] = <<"Failed", ErrMsg>>]_vars

C7_Witness ==
    \E j, k \in Jobs :
        /\ {j, k} \subseteq inflightAtCancel
        /\ result[j] = "Err" /\ progress[j] = <<"Cancelled">>
        /\ result[k] = "Done" /\ progress[k] = <<"Done">>

\* C8: a subscriber that has received Finish{Done} or Finish{Abandoned} of a
\* job finds the job retired by Storage, and one that has received
\* Finish{Failed} or Finish{Cancelled} finds it retained.
C8_FinishMatchesStorage ==
    \A j \in rcvd :
        /\ progress[j][1] \in {"Done", "Abandoned"} => j \notin pendingJobs
        /\ progress[j][1] \in {"Failed", "Cancelled"} => j \in pendingJobs

\* C9: a job that was in flight when the token was cancelled has, by the
\* time the worker ends, had its Finish broadcast and storage.job_finished
\* called for it; if its handler returned an error, the Finish is
\* Finish{Cancelled} and the status given to storage.job_finished is an
\* error.
C9_CancelledInFlightReported ==
    pc = "done" =>
        \A j \in inflightAtCancel :
            /\ Finished(j)
            /\ Len(reports[j]) = 1
            /\ result[j] = "Err" =>
                   /\ progress[j] = <<"Cancelled">>
                   /\ reports[j] = <<"Err">>

\* C10: the worker ends only when the token is cancelled or when the stream
\* has ended and every job has been reported: neither an Err of a handler
\* nor an Err of storage.job_finished ends it.
C10_LoopContinues ==
    pc = "done" =>
        \/ cancelled
        \/ streamDone /\ \A j \in 1..streamLen : st[j] = "reported"

C10_Witness ==
    /\ pc = "done"
    /\ ~cancelled
    /\ \E j, k \in Jobs :
          /\ j # k
          /\ reports[j] = <<"Err">>
          /\ reports[k] = <<"Done">> /\ k \in pendingJobs

\* C11: once the token is cancelled the worker eventually terminates, even
\* if the job stream never ends and handlers in flight never return.
C11_CancelledWorkerTerminates == cancelled ~> (pc = "done")

\* The worker has ended after shutdown() with the stream still open and a
\* handler that has not returned.
C11_Witness ==
    /\ task = "none"
    /\ cancelled
    /\ pc = "done"
    /\ ~streamDone
    /\ \E j \in Jobs : st[j] = "running"

\* C12: if the job stream ends, the token is never cancelled and every
\* handler returns, the worker terminates, and when it does every job whose
\* New was broadcast has had its Finish broadcast and storage.job_finished
\* called.
AllReported ==
    /\ streamDone
    /\ \A j \in Pulled : Finished(j) /\ st[j] = "reported"

C12_AllJobsReportedBeforeEnd ==
    /\ []((pc = "done" /\ ~cancelled) => AllReported)
    /\ (pc # "unspawned") ~> (cancelled \/ (pc = "done" /\ AllReported))

C12_Witness ==
    /\ pc = "done"
    /\ ~cancelled
    /\ AllReported
    /\ Cardinality(Pulled) = NumJobs

\* C13: a call of start() spawns a worker exactly when is_running() is
\* false at the call: it does nothing while a worker is running, and it
\* spawns one when none was started, after shutdown(), and after the
\* previous worker has ended.
C13_StartSpawnsIffNotRunning ==
    /\ lastCall = "noop" => runningBefore
    /\ lastCall = "spawned" => ~runningBefore

\* C14: whenever Finish is broadcast for a job, storage.job_finished is
\* called for that job too, before the worker polls again or ends, even if
\* the token is cancelled between the completion of the handler and the
\* report.
C14_FinishIsFollowedByReport ==
    /\ [](pc \in {"select", "fill", "drive", "done"} =>
             \A j \in Jobs : Finished(j) => st[j] = "reported")
    /\ \A j \in Jobs : Finished(j) ~> (st[j] = "reported")

\* A job reported although the token was cancelled after its handler had
\* completed and before storage.job_finished was called.
C14_Witness ==
    \E j \in Jobs :
        /\ posAtCancel \in {<<"finish", j>>, <<"report", j>>}
        /\ Finished(j)
        /\ st[j] = "reported"

\* C15: when the tracker has fallen behind and the channel reports lag, the
\* tracker goes on with the notifications still in the channel: once the
\* worker has ended and the tracker has nothing left to receive, it holds
\* the most recent notification of every job whose most recent notification
\* was still in the channel.
LastNote(j) == notes[j][Len(notes[j])]

Retained(j) ==
    \E i \in 1..Len(bus) :
        /\ i > Len(bus) - BROADCAST_CHANNEL_CAPACITY
        /\ bus[i] = <<j, LastNote(j)>>

C15_TrackerCatchesUpAfterLag ==
    (pc = "done" /\ ~(tpc = "recv" /\ tcur < Len(bus))) =>
        \A j \in Pulled : Retained(j) => tracked[j] = LastNote(j)

\* C16: once a subscriber has received the Finish of a job, the tracker
\* holds the job with its terminal progress: recent_jobs() shows it
\* finished and active_jobs() does not list it.
C16_ReceivedFinishIsTracked ==
    \A j \in rcvd : tracked[j] = "Finish"

\* C17: the notifications a job's reporter publishes carry the indexes
\* 2, 3, 4, ... in the order they are published, whatever their kind, and a
\* subscriber receives them with strictly increasing indexes, with gaps if
\* it lagged.
C17_IndexesIncreaseByOne ==
    /\ \A i \in 1..Len(pbus) : pbus[i][2] = i + 1
    /\ \A i \in 1..Len(pseen) : \A k \in 1..Len(pseen) :
          i < k => pseen[i] < pseen[k]

C17_Witness ==
    /\ Len(pbus) >= 3
    /\ \E i \in 1..Len(pbus) : pbus[i][1] = "UpdateAction"
    /\ \E i \in 1..Len(pbus) : pbus[i][1] = "UpdateByteCount"
    /\ pcall # <<>> /\ ~pcall[4]
    /\ \E i \in 1..(Len(pseen) - 1) : pseen[i + 1] > pseen[i] + 1

\* C18: update(current, total) publishes a byte count only if current is at
\* least 64 KiB past the last published current (0 before the first) or
\* current = total, and always publishes when current = total.
LastPublishedBefore == IF pcall[3] = -1 THEN 0 ELSE pcall[3]

C18_PublishedOnlyPastThreshold ==
    pcall # <<>> =>
        /\ pcall[4] =>
              \/ pcall[1] - LastPublishedBefore >= BROADCAST_CHANNEL_RESOLUTION_BYTES
              \/ pcall[1] = pcall[2]
        /\ pcall[1] = pcall[2] => pcall[4]

\* C20: with total the bytes of MovingFile and current its available plus
\* the IncrementByteCount minus the DecrementByteCount events sent so far,
\* current <= total after every event and current = total at FileSuccess,
\* whatever the sizes of source and destination.
RECURSIVE ByteCountOf(_)
ByteCountOf(events) ==
    IF events = <<>> THEN 0
    ELSE LET e == events[Len(events)]
             rest == ByteCountOf(SubSeq(events, 1, Len(events) - 1))
         IN CASE e[1] = "IncrementByteCount" -> rest + e[2]
              [] e[1] = "DecrementByteCount" -> rest - e[2]
              [] OTHER -> rest

CurrentBytes == MovingFileAvailable + ByteCountOf(mEvents)

C20_ByteCountWithinTotal ==
    /\ CurrentBytes <= MovingFileBytes
    /\ FileSuccess => CurrentBytes = MovingFileBytes

\* C19: within one move_dirs call at most one file at a time is in the
\* read/send loop of copy_file_range holding the copy permit, in the
\* copy-missing phase as in the fallback phase.
Copying == {f \in Files : fpc[f] = "copying"}

C19_OneFileCopies ==
    /\ Cardinality(Copying) <= 1
    /\ copySem + Cardinality(Copying) = 1

C19_Witness ==
    \E f \in Files : \E g \in Files :
        /\ fpc[f] = "copying" /\ fpass[f] = 2
        /\ fpc[g] = "pending" /\ fpass[g] = 1
        /\ \E h \in Files : fpc[h] = "done"

\* C21: move_file called on a destination that already has the content and
\* the size of the source only hashes the two files, then calls dst.finish
\* and then src.delete: it makes no read, send, truncate,
\* calculate_signature, diff or apply_delta call and sends no event but
\* VerifyingFile.
Identical ==
    /\ mDst0 = mSrc
    /\ mSrcSize = Len(mSrc)
    /\ mDstSize = mSrcSize

Ops == [i \in 1..Len(mCalls) |-> mCalls[i][1]]

C21_IdenticalOnlyVerifies ==
    Identical =>
        /\ \A i \in 1..Len(mCalls) :
              Ops[i] \in {"src.hash", "dst.hash", "dst.finish", "src.delete"}
        /\ \A i \in 1..Len(mEvents) : mEvents[i][1] = "VerifyingFile"
        /\ mResult = "Ok" => Ops = <<"src.hash", "dst.hash", "dst.finish", "src.delete">>
        /\ mResult # "FailedToSync"
        /\ Len(mCalls) <= 4

C21_Witness ==
    /\ Identical
    /\ mSrcSize > 0
    /\ mResult = "Ok"

\* C22: move_file returns FailedToSync exactly when the second
\* verification, after the rsync and fallback phases, finds the hashes
\* mismatching or incomplete; then dst.finish and src.delete have not been
\* called, and there is never a third verification.
HashedDst == {i \in 1..Len(mCalls) : mCalls[i][1] = "dst.hash"}

VerifiedTwice ==
    /\ pass = 2
    /\ mCalls # <<>>
    /\ mCalls[Len(mCalls)] = Call("dst.hash", 0, mSrcSize, "ok")
    /\ ~HashesMatch(srcHash, HashFile(mDst, mSrcSize, HASH_FILE_CHUNK), mSrcSize)

C22_FailedToSyncAfterSecondVerify ==
    /\ Cardinality(HashedDst) <= 2
    /\ mpc = "end" =>
          (mResult = "FailedToSync" <=> VerifiedTwice)
    /\ mResult = "FailedToSync" =>
          /\ Cardinality(HashedDst) = 2
          /\ ~mFinished /\ mSrcExists
          /\ \A i \in 1..Len(mCalls) : mCalls[i][1] \notin {"dst.finish", "src.delete"}

C22_Witness ==
    /\ mResult = "FailedToSync"
    /\ \E i \in 1..Len(mCalls) : mCalls[i][1] = "dst.apply_delta"
    /\ \E i \in 1..Len(mCalls) : mCalls[i][1] = "dst.send"

\* C23: in the rsync phase a chunk whose apply_delta returns HashMismatch
\* goes to the fallback ranges and the chunks after it are still processed;
\* the fallback copy reads and sends exactly the fallback ranges; any other
\* error of calculate_signature, diff or apply_delta is the last call of
\* move_file, which returns the error.
CallsOf(op, outcome) ==
    {i \in 1..Len(mCalls) : mCalls[i][1] = op /\ mCalls[i][4] = outcome}

RangesOf(calls) == UNION {Single(mCalls[i][2], mCalls[i][3]) : i \in calls}

RECURSIVE SumBytes(_)
SumBytes(calls) ==
    IF calls = {} THEN 0
    ELSE LET i == CHOOSE x \in calls : TRUE
         IN (mCalls[i][3] - mCalls[i][2]) + SumBytes(calls \ {i})

Decremented ==
    LET d == {i \in 1..Len(mEvents) : mEvents[i][1] = "DecrementByteCount"}
    IN IF d = {} THEN 0 ELSE mEvents[CHOOSE i \in d : TRUE][2]

FirstVerify == IF HashedDst = {} THEN Len(mCalls) + 1 ELSE MinOf(HashedDst)

FallbackCopies(op, outcome) == {i \in CallsOf(op, outcome) : i > FirstVerify}

RsyncFailures ==
    {i \in 1..Len(mCalls) :
        /\ mCalls[i][1] \in {"dst.calculate_signature", "src.diff", "dst.apply_delta"}
        /\ mCalls[i][4] = "err"}

C23_OnlyHashMismatchFallsBack ==
    /\ fallback = RangesOf(CallsOf("dst.apply_delta", "HashMismatch"))
    /\ (mCalls # <<>> /\ mCalls[Len(mCalls)][1] = "dst.apply_delta"
            /\ mCalls[Len(mCalls)][4] = "HashMismatch") =>
          (mResult = "none" /\ mpc \in {"rsync", "fallback"})
    /\ pass = 2 =>
          SumBytes(CallsOf("dst.calculate_signature", "ok")) = Decremented
    /\ RangesOf(FallbackCopies("src.read", "ok")) \subseteq fallback
    /\ RangesOf(FallbackCopies("src.read", "err")) \subseteq fallback
    /\ Cardinality(HashedDst) = 2 =>
          RangesOf(FallbackCopies("dst.send", "ok")) = fallback
    /\ \A i \in RsyncFailures :
          i = Len(mCalls) /\ mResult = "Err" /\ mpc = "end"

C23_Witness ==
    /\ Cardinality(HashedDst) = 2
    /\ fallback # {}
    /\ \E i \in CallsOf("dst.apply_delta", "HashMismatch") :
          \E k \in CallsOf("dst.apply_delta", "ok") : i < k
    /\ mResult = "Ok"

\* C30: in the copy-missing phase of move_file with source size S and
\* destination size D, src.read and dst.send are called on the chunks of
\* [D, S), in order, and on nothing when D >= S; dst.truncate(S) is called
\* iff D > S, after the copy.
IsCopyCall(c) == c[1] \in {"src.read", "dst.send"}

IsRead(c) == c[1] = "src.read"

IsSend(c) == c[1] = "dst.send"

RangeOfCall(c) == <<c[2], c[3]>>

CopyMissingCalls == SubSeq(mCalls, 1, FirstVerify - 1)

RangeSeq(calls) == [i \in 1..Len(calls) |-> RangeOfCall(calls[i])]

MissingChunks == Chunked(Single(mDstSize, mSrcSize), CHUNK_SIZE)

IsPrefix(a, b) == Len(a) <= Len(b) /\ a = SubSeq(b, 1, Len(a))

Truncates == {i \in 1..Len(mCalls) : mCalls[i][1] = "dst.truncate"}

C30_CopyMissingRanges ==
    LET reads == RangeSeq(SelectSeq(CopyMissingCalls, IsRead))
        sends == RangeSeq(SelectSeq(CopyMissingCalls, IsSend))
    IN /\ IsPrefix(reads, MissingChunks)
       /\ IsPrefix(sends, reads)
       /\ Len(reads) <= Len(sends) + 1
       /\ HashedDst # {} => (reads = MissingChunks /\ sends = MissingChunks)
       /\ \A i \in Truncates :
             /\ mDstSize > mSrcSize
             /\ mCalls[i][2] = mSrcSize
             /\ i < FirstVerify
             /\ \A k \in 1..Len(mCalls) :
                   (k < FirstVerify /\ IsCopyCall(mCalls[k])) => k < i
       /\ Cardinality(Truncates) <= 1
       /\ (HashedDst # {} /\ mDstSize > mSrcSize) => CallsOf("dst.truncate", "ok") # {}

C30_Witness ==
    /\ HashedDst # {}
    /\ mDstSize > 0
    /\ mSrcSize >= mDstSize + 2
    /\ Len(SelectSeq(CopyMissingCalls, IsSend)) >= 2

\* C24: move_dirs returns the numbers of the files that succeeded, failed
\* and were interrupted; each file counts once: success if move_file
\* returned Ok, interrupted if it failed on the deadline of an RPC, error
\* for any other failure; the numbers add up to the number of files, and a
\* failed file does not keep the other files from being moved.
C24_CountsPartitionFiles ==
    dresult # <<>> =>
        /\ dresult[1] = Cardinality({f \in Files : fpc[f] = "done"})
        /\ dresult[3] = Cardinality({f \in Files :
                            fpc[f] = "error" /\ ferr[f] = "Rpc(DeadlineExceeded)"})
        /\ dresult[2] = Cardinality({f \in Files :
                            fpc[f] = "error" /\ ferr[f] \in {"Other", "FailedToSync"}})
        /\ dresult[1] + dresult[2] + dresult[3] = NumFiles

C24_Witness ==
    /\ dresult # <<>>
    /\ dresult[1] >= 1 /\ dresult[2] >= 1 /\ dresult[3] >= 1
    /\ fpc[1] = "error" /\ fpc[NumFiles] = "done"

\* C25: Reader::open returns a Reader only if the index has an entry for
\* the path; with no entry it fails with NotFound, whether or not the file
\* exists; with an entry and no file it fails with the NotFound of the file
\* system.
Opened == rlast # <<>> /\ rlast[1] = "open"

C25_OpenNeedsIndexEntry ==
    Opened =>
        /\ rlast[2] = "Ok" => (ientry # <<>> /\ ifile # <<>>)
        /\ (rlast[3] /\ ientry = <<>>) => rlast[2] = "NotFound"
        /\ (rlast[3] /\ ientry # <<>> /\ ifile = <<>>) => rlast[2] = "Io(NotFound)"
        /\ ropen => rlast[2] = "Ok"

C25_Witness ==
    /\ Opened
    /\ rlast[2] = "NotFound"
    /\ ifile # <<>>

\* C26: metadata() returns the size of the file as it is at the call, with
\* the hash of the index entry as it is at the call if that entry has the
\* size and the mtime of the file, and with no hash otherwise.
GotMetadata == rlast # <<>> /\ rlast[1] = "metadata" /\ rlast[2][1] = "Ok"

EntryAgrees(file, entry) ==
    /\ entry # <<>>
    /\ entry[1] = Len(file[1])
    /\ entry[2] = file[2]

C26_MetadataHashIffIndexAgrees ==
    GotMetadata =>
        /\ rlast[2][2] = Len(ifile[1])
        /\ rlast[2][3][1] = "Some" =>
              (EntryAgrees(ifile, ientry) /\ rlast[2][3][2] = ientry[3])
        /\ (rlast[3] /\ EntryAgrees(ifile, ientry)) =>
              rlast[2][3] = <<"Some", ientry[3]>>

\* The file was rewritten with another size and indexed again after open
\* (tests::read_file_modified_after_open).
C26_Witness ==
    /\ GotMetadata
    /\ rlast[2][3][1] = "Some"
    /\ ropen
    /\ Len(ifile[1]) = MaxFile
    /\ ientry[3] = "h2"

\* C27: the delta rsync returns for a range is computed from the bytes
\* [range.start, range.start + range.bytecount()) of the file.
GotDelta == rlast # <<>> /\ rlast[1] = "rsync" /\ rlast[2][1] = "Delta"

C27_RsyncReadsTheRange ==
    GotDelta =>
        /\ rlast[2][2] = ReadRange(ifile[1], rlast[4][1], rlast[4][2])
        /\ Len(rlast[2][2]) = rlast[4][2] - rlast[4][1]

\* C28: rsync fails with NotFound whenever the path has no index entry and
\* with InvalidRsyncSignature whenever the signature cannot be
\* deserialized.
Rsynced == rlast # <<>> /\ rlast[1] = "rsync"

C28_RsyncErrors ==
    Rsynced =>
        /\ (rlast[3] /\ ientry = <<>>) => rlast[2] = <<"NotFound">>
        /\ ~rlast[5] => rlast[2] = <<"InvalidRsyncSignature">>

\* C28, amended: the signature is looked at first, so that NotFound is the
\* error of a path with no index entry only when the signature can be
\* deserialized.
C28_RsyncErrorsSignatureFirst ==
    Rsynced =>
        /\ ~rlast[5] => rlast[2] = <<"InvalidRsyncSignature">>
        /\ (rlast[5] /\ rlast[3] /\ ientry = <<>>) => rlast[2] = <<"NotFound">>
        /\ rlast[2][1] = "Delta" => (rlast[5] /\ ientry # <<>>)

C28_Witness ==
    /\ Rsynced
    /\ ~rlast[5]
    /\ ientry = <<>>
    /\ ifile # <<>>

(***************************************************************************)
(* A run whose notifications go to a channel that nobody may be reading:   *)
(* the run has no receiver at all, or it has the tracker task of           *)
(* churten.rs:66-73, which is given no fairness and so may never call      *)
(* recv(), may fall behind by more than the capacity, and may end on       *)
(* Err(Lagged). The worker, the job stream and the handlers are scheduled  *)
(* as in SpecRun.                                                          *)
(***************************************************************************)
InitBus ==
    /\ \E b \in BOOLEAN : InitWorker(NumJobs, FALSE, FALSE, b)
    /\ MoveIdle
    /\ ExtraIdle

NextBus ==
    \/ NextPar
    \/ TrackerRecv

SpecBus ==
    /\ InitBus
    /\ [][NextBus]_vars
    /\ WF_vars(WorkerStep)
    /\ SF_vars(StreamStep)
    /\ \A j \in Jobs : SF_vars(HandlerReturn(j))

\* The notifications sent and not yet read by the tracker task.
Unread == Len(bus) - tcur

\* The handler of job j was run (run_job broadcasts Start just before it
\* calls the handler, churten.rs:206-208), it returned (Finish is broadcast
\* with what it returned), and storage.job_finished was called.
RanAndReported(j) ==
    /\ st[j] = "reported"
    /\ Has(notes[j], "Start")
    /\ Finished(j)

\* C29: tx.send never blocks the worker. Whether the channel has no
\* receiver, a receiver that never reads, or more unread notifications
\* than its capacity, every job whose New was broadcast has its handler
\* run to its return and storage.job_finished called once, unless the run
\* is cancelled first, and the worker then ends.
C29_SendsNeverBlock ==
    (pc # "unspawned") ~>
        (cancelled \/ (pc = "done" /\ streamDone /\ \A j \in Pulled : RanAndReported(j)))

C29_Witness ==
    /\ busOn
    /\ tcur = 0
    /\ Unread > BROADCAST_CHANNEL_CAPACITY
    /\ pc = "done"
    /\ ~cancelled
    /\ Cardinality(Pulled) = NumJobs
    /\ \A j \in Pulled : RanAndReported(j)

C29_WitnessNoReceiver ==
    /\ ~busOn
    /\ pc = "done"
    /\ ~cancelled
    /\ Cardinality(Pulled) = NumJobs
    /\ \A j \in Pulled : RanAndReported(j)

(***************************************************************************)
(* move_file: the joined pair and the verify phase                         *)
(***************************************************************************)
HasEvent(k) == \E i \in 1..Len(mEvents) : mEvents[i][1] = k

\* Index of the first event of kind k, 0 if there is none.
FirstEvent(k) ==
    IF HasEvent(k)
    THEN MinOf({i \in 1..Len(mEvents) : mEvents[i][1] = k})
    ELSE 0

\* The calls of the verify phase: the hash of the destination, finish and
\* delete.
NoVerifyCall ==
    \A i \in 1..Len(mCalls) : mCalls[i][1] \notin {"dst.hash", "dst.finish", "src.delete"}

\* One of the two joined futures has failed.
JoinFailed == mpc = "join" /\ (cpc = "failed" \/ hpc = "failed")

\* The bytes the copy-missing phase reports: [0, src_size) less
\* [0, dst_size).
MissingBytes == Cardinality(Single(0, mSrcSize) \ Single(0, mDstSize))

\* The bytes of the IncrementByteCount events before event n.
RECURSIVE IncrementsBefore(_)
IncrementsBefore(n) ==
    IF n <= 1 THEN 0
    ELSE IncrementsBefore(n - 1)
         + (IF mEvents[n - 1][1] = "IncrementByteCount" THEN mEvents[n - 1][2] ELSE 0)

\* C31: the copy of the missing ranges (with the truncate) and the hash of
\* the source are joined. While the pair runs there is no VerifyingFile and
\* no destination hash, finish or delete; once either has failed move_file
\* can only return the error, still without any of them; and the first
\* VerifyingFile comes after every IncrementByteCount of the copy of the
\* missing ranges.
C31_JoinedPairBeforeVerify ==
    /\ [](mpc = "join" => ~HasEvent("VerifyingFile") /\ NoVerifyCall)
    /\ [][JoinFailed =>
            /\ mpc' \in {"join", "end"}
            /\ mpc' = "end" => mResult' = "Err"
            /\ ~HasEvent("VerifyingFile")'
            /\ NoVerifyCall']_vars
    /\ [][mpc # "end"]_vars
    /\ [](HasEvent("VerifyingFile") =>
            IncrementsBefore(FirstEvent("VerifyingFile")) = MissingBytes)

\* The copy went through, the hash of the source failed, and move_file
\* returned the error.
C31_Witness ==
    /\ mpc = "end"
    /\ mResult = "Err"
    /\ \E i \in 1..Len(mCalls) : mCalls[i] = Call("src.hash", 0, mSrcSize, "err")
    /\ \E i \in 1..Len(mCalls) : mCalls[i][1] = "dst.send" /\ mCalls[i][4] = "ok"
    /\ IncrementsBefore(Len(mEvents) + 1) = MissingBytes
    /\ MissingBytes > 1
    /\ ~HasEvent("VerifyingFile")
    /\ NoVerifyCall

(***************************************************************************)
(* move_file: what the first verify pass hands to rsync                    *)
(***************************************************************************)
\* The chunk of hash_file that holds offset o of a file of mSrcSize.
HashChunkOf(o) ==
    LET lo == (o \div HASH_FILE_CHUNK) * HASH_FILE_CHUNK
    IN <<lo, Min(lo + HASH_FILE_CHUNK, mSrcSize)>>

\* The offsets of [0, S) whose chunk hashes differently on the two peers.
Unmatched ==
    {o \in Single(0, mSrcSize) :
        RemoteHash(mSrc, HashChunkOf(o)) # RemoteHash(mDst, HashChunkOf(o))}

\* The first verify pass has just found a mismatch.
JustMismatched ==
    /\ mpc = "rsync"
    /\ mCalls # <<>>
    /\ mCalls[Len(mCalls)][1] = "dst.hash"

RsyncHanded == UNION {Single(rsyncTodo[i][1], rsyncTodo[i][2]) : i \in 1..Len(rsyncTodo)}

EventsEndWith(t) ==
    /\ Len(mEvents) >= Len(t)
    /\ SubSeq(mEvents, Len(mEvents) - Len(t) + 1, Len(mEvents)) = t

\* C32: when the first verify pass fails, rsync is handed [0, S) less the
\* ranges whose hashes matched; a DecrementByteCount of that many bytes is
\* sent after VerifyingFile and before RsyncingFile, and none is sent when
\* that is 0 bytes. No other DecrementByteCount is ever sent.
C32_RsyncRangesAndDecrement ==
    /\ JustMismatched =>
          /\ RsyncHanded = Unmatched
          /\ IF Unmatched = {}
             THEN /\ EventsEndWith(<<(<<"VerifyingFile", 0>>)>>)
                  /\ ~HasEvent("DecrementByteCount")
                  /\ ~HasEvent("RsyncingFile")
             ELSE EventsEndWith(<< <<"VerifyingFile", 0>>,
                                   <<"DecrementByteCount", Cardinality(Unmatched)>>,
                                   <<"RsyncingFile", 0>> >>)
    /\ \A i \in 1..Len(mEvents) :
          mEvents[i][1] = "DecrementByteCount" =>
             /\ i = FirstEvent("DecrementByteCount")
             /\ i = FirstEvent("VerifyingFile") + 1
             /\ i > 1
             /\ mEvents[i][2] > 0
             /\ i < Len(mEvents)
             /\ mEvents[i + 1][1] = "RsyncingFile"

\* A mismatch on a part of the file: some chunk matched and is not handed
\* to rsync, the rest is and was decremented.
C32_Witness ==
    /\ JustMismatched
    /\ Unmatched # {}
    /\ Unmatched # Single(0, mSrcSize)
    /\ Decremented = Cardinality(Unmatched)

\* A failed first pass with nothing to rsync: every chunk hashes the same
\* on both peers but the hashes are not complete.
C32_WitnessNothingToRsync ==
    /\ JustMismatched
    /\ mSrcSize > 0
    /\ Unmatched = {}

(***************************************************************************)
(* move_file: PendingFile, CopyingFile and RsyncingFile                    *)
(***************************************************************************)
\* Event i belongs to the copy of the missing ranges: it comes before the
\* first VerifyingFile.
InFirstCopy(i) ==
    FirstEvent("VerifyingFile") = 0 \/ i < FirstEvent("VerifyingFile")

RsyncCalled == \E i \in 1..Len(mCalls) : mCalls[i][1] = "dst.calculate_signature"

\* C33: every CopyingFile directly follows a PendingFile of the file, and
\* that PendingFile was sent before the permit of copy_sem was acquired;
\* a copy_file_range with no range sends neither, and a rsync_file_range
\* with no range sends no RsyncingFile.
C33_PendingBeforeCopying ==
    /\ \A i \in 1..Len(mEvents) :
          mEvents[i][1] = "CopyingFile" =>
             i > 1 /\ mEvents[i - 1][1] = "PendingFile"
    /\ cpc = "pending" =>
          /\ ~semHeld
          /\ EventsEndWith(<<(<<"PendingFile", 0>>)>>)
    /\ semHeld => HasEvent("CopyingFile")
    /\ \A i \in 1..Len(mEvents) :
          mEvents[i][1] \in {"PendingFile", "CopyingFile"} =>
             IF InFirstCopy(i) THEN MissingBytes > 0 ELSE fallback # {}
    /\ HasEvent("RsyncingFile") => (rsyncTodo # <<>> \/ RsyncCalled)
    /\ (JustMismatched /\ rsyncTodo = <<>>) => ~HasEvent("RsyncingFile")

\* Both calls of copy_file_range had ranges to copy: two PendingFile, each
\* followed by its CopyingFile, around a RsyncingFile.
C33_Witness ==
    /\ Cardinality({i \in 1..Len(mEvents) : mEvents[i][1] = "CopyingFile"}) = 2
    /\ Cardinality({i \in 1..Len(mEvents) : mEvents[i][1] = "PendingFile"}) = 2
    /\ HasEvent("RsyncingFile")
    /\ mResult = "Ok"

(***************************************************************************)
(* hash_file                                                               *)
(***************************************************************************)
\* The consecutive chunks of c blocks that tile [0, S), the last one
\* shorter.
Tiling(S, c) ==
    {<<k * c, Min((k + 1) * c, S)>> : k \in 0..(((S + c - 1) \div c) - 1)}

HashFailed == \E i \in 1..Len(hres) : hres[i][2] = <<"err">>

\* C34: hash_file returns the RangedHash of the chunks that tile
\* [0, file_size), each with the hash its call returned, whatever the order
\* in which the calls completed; never more than PARALLEL_FILE_HASH calls
\* are in flight; if a call failed, hash_file returns an error and no
\* RangedHash.
C34_HashFileTilesInAnyOrder ==
    /\ Cardinality(hflight) <= PARALLEL_FILE_HASH
    /\ hret # <<>> =>
          /\ {hres[i][1] : i \in 1..Len(hres)} = Tiling(hsize, hchunk)
          /\ Len(hres) = Cardinality(Tiling(hsize, hchunk))
          /\ IF HashFailed
             THEN hret = <<"Err">>
             ELSE /\ hret = <<"Ok", {<<r, RemoteHash(hcontent, r)>> :
                                        r \in Tiling(hsize, hchunk)}>>
                  /\ hret[2] = HashFile(hcontent, hsize, hchunk)

\* A call on three chunks or more, the last of them shorter and past the
\* end of the file, that completed out of order and returned Ok.
C34_Witness ==
    /\ hret # <<>>
    /\ hret[1] = "Ok"
    /\ Len(hres) > PARALLEL_FILE_HASH
    /\ hres[1][1][1] > hres[2][1][1]
    /\ hsize % hchunk # 0
    /\ Len(hcontent) < hsize

\* A call whose first chunk failed after the others had completed.
C34_WitnessFails ==
    /\ hret = <<"Err">>
    /\ Len(hres) > PARALLEL_FILE_HASH
    /\ hres[Len(hres)][2] = <<"err">>
    /\ \A i \in 1..(Len(hres) - 1) : hres[i][2] # <<"err">>

(***************************************************************************)
(* collect_files_to_sync                                                   *)
(***************************************************************************)
\* The arenas whose two listings succeeded.
Listed == {a \in 1..knum : kcol[a] # <<>> /\ kcol[a][1] = "Ok"}

SrcListed(a) == klist[a][1][2]

DstListed(a) == klist[a][2][2]

\* The listed destination files that have the path of a listed source file.
Paired(a) ==
    {j \in 1..Len(DstListed(a)) :
        \E i \in 1..Len(SrcListed(a)) : SrcListed(a)[i][1] = DstListed(a)[j][1]}

RECURSIVE SizeSum(_, _)
SizeSum(files, idx) ==
    IF idx = {} THEN 0
    ELSE LET i == CHOOSE x \in idx : TRUE
         IN files[i][2] + SizeSum(files, idx \ {i})

MovingDirEvents(a) ==
    {i \in 1..Len(kevents) : kevents[i][1] = "MovingDir" /\ kevents[i][2] = a}

\* C35: collect_files_to_sync returns one pair per listed source file, in
\* the order of the listing, with the listed destination file of the same
\* path or none; a file listed on the destination only is in no pair and no
\* call is ever made on it; MovingDir carries the number of source files,
\* the sum of their sizes and the sum of the sizes of the paired
\* destination files.
C35_PairsBySourceFile ==
    \A a \in Listed :
       LET pairs == kcol[a][2]
           S == SrcListed(a)
           D == DstListed(a)
       IN /\ Len(pairs) = Len(S)
          /\ \A i \in 1..Len(S) :
                /\ pairs[i][1] = a
                /\ pairs[i][2] = S[i]
                /\ IF \E j \in 1..Len(D) : D[j][1] = S[i][1]
                   THEN \E j \in 1..Len(D) : D[j][1] = S[i][1] /\ pairs[i][3] = D[j]
                   ELSE pairs[i][3] = <<>>
          /\ \A c \in kcalls :
                c[2] = a => \E i \in 1..Len(S) : S[i][1] = c[3]
          /\ Cardinality(MovingDirEvents(a)) = 1
          /\ \A i \in MovingDirEvents(a) :
                kevents[i] = <<"MovingDir", a, Len(S), SizeSum(S, 1..Len(S)),
                               SizeSum(D, Paired(a))>>

\* An arena whose destination lists a file of the source, with another
\* size, and a file the source does not have; the source file was moved.
C35_Witness ==
    /\ kret = <<"Ok">>
    /\ 1 \in Listed
    /\ Len(SrcListed(1)) = 1
    /\ Len(DstListed(1)) = 2
    /\ Paired(1) = {2}
    /\ DstListed(1)[2][2] # SrcListed(1)[1][2]
    /\ DstListed(1)[1][2] # DstListed(1)[2][2]
    /\ kmoved = 1

(***************************************************************************)
(* move_dirs: a listing that fails                                         *)
(***************************************************************************)
SrcListFailed(a) == klist[a] # <<>> /\ klist[a][1][1] = "Err"

DstListFailed(a) == klist[a] # <<>> /\ klist[a][2][1] = "Err"

ListFailed == {a \in 1..knum : SrcListFailed(a) \/ DstListFailed(a)}

NoFileTouched ==
    /\ kcalls = {}
    /\ \A i \in 1..Len(kevents) : kevents[i][1] # "MovingFile"

\* C39: if src.list or dst.list fails for an arena passed to move_dirs,
\* move_dirs returns the error of a failed listing, no call is made on any
\* file of any arena and no MovingFile is sent; and no file is touched
\* before every arena is listed.
C39_ListErrorTouchesNoFile ==
    /\ kpc = "collect" => NoFileTouched
    /\ ListFailed # {} =>
          /\ NoFileTouched
          /\ kpc \in {"collect", "returned"}
          /\ ksync = <<>>
          /\ kpc = "returned" =>
                /\ kret[1] = "Err"
                /\ kret[2] \in ListFailed
                /\ kret[3] = IF SrcListFailed(kret[2]) THEN "src" ELSE "dst"

\* The first arena was listed and has a file to move, its MovingDir was
\* sent; the destination listing of the second arena failed and move_dirs
\* returned that error.
C39_Witness ==
    /\ kpc = "returned"
    /\ ListFailed = {2}
    /\ DstListFailed(2)
    /\ ~SrcListFailed(2)
    /\ kret = <<"Err", 2, "dst">>
    /\ kcol[1][1] = "Ok"
    /\ Len(kcol[1][2]) = 1
    /\ Len(kevents) = 1
    /\ NoFileTouched

(***************************************************************************)
(* The token a handler is given                                            *)
(***************************************************************************)
\* C36: the token passed to a handler is a child of the token of the run:
\* a handler that cancels the token it was given leaves the token of the
\* run uncancelled, so that the loop of the worker goes on and the other
\* jobs in flight are not cancelled.
C36_HandlerTokenIsChild ==
    [][\A j \in Jobs : HandlerCancel(j) => ~cancelled']_vars

(***************************************************************************)
(* Restarts                                                                *)
(***************************************************************************)
Alive == {w \in Workers : wst[w] = "alive"}

RECURSIVE InFlight(_)
InFlight(W) ==
    IF W = {} THEN 0
    ELSE LET w == CHOOSE x \in W : TRUE IN wfly[w] + InFlight(W \ {w})

\* C37: whatever the calls of start() and shutdown() on a Churten, at most
\* one of the workers it spawned is alive at a time, and so never more than
\* PARALLEL_JOB_COUNT jobs are in flight.
C37_OneWorkerAlive ==
    /\ Cardinality(Alive) <= 1
    /\ InFlight(Workers) <= PARALLEL_JOB_COUNT

(***************************************************************************)
(* The job stream after the cancellation                                   *)
(***************************************************************************)
\* The token was cancelled while the worker was suspended in select!, not
\* in the middle of a poll.
CancelledAtSelect ==
    /\ cancelled
    /\ posAtCancel # <<>>
    /\ posAtCancel[1] = "select"

\* C38: once the token of the run is cancelled the worker pulls no job
\* from the job stream and starts none: no New and no Start is broadcast
\* after the cancellation.
C38_NoPullAfterCancel ==
    [][CancelledAtSelect =>
          \A j \in Jobs :
             /\ Count(notes'[j], "New") = Count(notes[j], "New")
             /\ Count(notes'[j], "Start") = Count(notes[j], "Start")]_vars


\* The files whose most recent phase event is CopyingFile.
ShowsCopying == {f \in Files : flast[f] = "CopyingFile"}

\* C40, as stated: within one move_dirs call at most one file at a time
\* has CopyingFile as its most recent phase event, that is, the interval
\* from a file's CopyingFile to its next VerifyingFile, FileSuccess or
\* FileError never overlaps that of another file.
C40_OneFileShowsCopying == Cardinality(ShowsCopying) <= 1

\* C40, amended: a file inside copy_file_range with the permit has
\* CopyingFile as its most recent phase event, and among the files that
\* show CopyingFile at most one is still inside copy_file_range; the
\* others have left it, released the permit and wait for the truncate and
\* the hash of the source before VerifyingFile or FileError.
C40_CopyingUntilPermitReleased ==
    /\ Copying \subseteq ShowsCopying
    /\ Cardinality(ShowsCopying \cap Copying) <= 1
    /\ \A f \in ShowsCopying : fpc[f] \in {"copying", "verify"}

\* Two files show CopyingFile at once: one copies with the permit, the
\* other has returned from copy_file_range and is not verified yet.
C40_Witness ==
    \E f, g \in Files :
        /\ f # g
        /\ {f, g} \subseteq ShowsCopying
        /\ fpc[f] = "copying"
        /\ fpc[g] = "verify"
        /\ ferr[g] = "none"

==============================================================================
